---------------------------- MODULE Spec2Model ----------------------------
(***************************************************************************)
(* Layout core of lerigou: the text sizing estimator                       *)
(* (utils/text_dimensions.py), the flow-graph layout of                    *)
(* AIToCanvasAdapter (ai/canvas_adapter.py) and the container layout       *)
(* engine LayoutEngine (canvas/layout.py).                                 *)
(*                                                                         *)
(* Strings of the program are kept where they are compared (ids, step      *)
(* types, sides, colors); a text to be measured is kept as the sequence of *)
(* its lines, each line as the prefix class _calculate_line_dimensions     *)
(* tests for and the length of the line after _strip_markdown.             *)
(* Python's None is the string "None".  Node and edge ids drawn by         *)
(* generate_id (a random uuid) are not part of the model.                  *)
(***************************************************************************)
EXTENDS Integers, Sequences, FiniteSets, TLC

(***************************************************************************)
(* Bounds of the explored inputs.                                          *)
(***************************************************************************)
MaxSteps == 3
MaxConns == 2
MaxSubFlows == 1
SubFlowSteps == 1
SubFlowConns == 1

None == "None"

Max(a, b) == IF a >= b THEN a ELSE b
Min(a, b) == IF a <= b THEN a ELSE b
Abs(a) == IF a >= 0 THEN a ELSE 0 - a

RECURSIVE SeqSum(_)
SeqSum(s) == IF s = <<>> THEN 0 ELSE Head(s) + SeqSum(Tail(s))

RECURSIVE SeqMax(_)
SeqMax(s) == IF s = <<>> THEN 0 ELSE Max(Head(s), SeqMax(Tail(s)))

RECURSIVE Flatten(_)
Flatten(ss) == IF ss = <<>> THEN <<>> ELSE Head(ss) \o Flatten(Tail(ss))

\* dict.get(key, default)
DictGet(d, k, default) == IF k \in DOMAIN d THEN d[k] ELSE default

\* d[key] = value
DictSet(d, k, v) == [kk \in (DOMAIN d) \cup {k} |-> IF kk = k THEN v ELSE d[kk]]

EmptyDict == [kk \in {} |-> None]

\* the sequence f, computed once
Evaluated(f) == <<>> \o f

(***************************************************************************)
(* utils/text_dimensions.py                                                *)
(***************************************************************************)
CHAR_WIDTH == 8
LINE_HEIGHT == 24
HEADER_LINE_HEIGHT == 32
CODE_LINE_HEIGHT == 22
PADDING_HORIZONTAL == 24
PADDING_VERTICAL == 20
MAX_WIDTH == 500

LineKinds == {"h3", "h2", "h1", "code", "bullet", "blank", "plain"}

Line(kind, len) == [kind |-> kind, len |-> len]

\* text == "" (the only text whose split gives one empty line)
EmptyText == <<Line("blank", 0)>>

\* int(width * 1.1) and the like, for width a multiple of CHAR_WIDTH
ScaleTenths(width, tenths) == (width * tenths) \div 10

CalculateLineDimensions(line) ==
    LET width == line.len * CHAR_WIDTH
    IN  CASE line.kind = "h3" -> <<ScaleTenths(width, 11), HEADER_LINE_HEIGHT + 4>>
          [] line.kind = "h2" -> <<ScaleTenths(width, 12), HEADER_LINE_HEIGHT + 8>>
          [] line.kind = "h1" -> <<ScaleTenths(width, 13), HEADER_LINE_HEIGHT + 12>>
          [] line.kind = "code" -> <<ScaleTenths(width, 9), CODE_LINE_HEIGHT>>
          [] line.kind = "bullet" -> <<width + 16, LINE_HEIGHT>>
          [] line.kind = "blank" -> <<width, LINE_HEIGHT \div 2>>
          [] OTHER -> <<width, LINE_HEIGHT>>

LineWidths(text) == [i \in 1..Len(text) |-> CalculateLineDimensions(text[i])[1]]
LineHeights(text) == [i \in 1..Len(text) |-> CalculateLineDimensions(text[i])[2]]

\* int(total_height * (max_line_width / available) * 0.8); int() rounds
\* toward zero, and available is not 0 here
WrapCorrection(total_height, max_line_width, available) ==
    IF available > 0
    THEN (total_height * max_line_width * 8) \div (available * 10)
    ELSE 0 - ((total_height * max_line_width * 8) \div ((0 - available) * 10))

CalculateTextDimensions(text, min_width, max_width, min_height) ==
    IF text = EmptyText
    THEN <<min_width, min_height>>
    ELSE LET max_line_width == SeqMax(LineWidths(text))
             summed == PADDING_VERTICAL * 2 + SeqSum(LineHeights(text))
             width == Max(min_width,
                          Min(max_width, max_line_width + PADDING_HORIZONTAL * 2))
             available == max_width - PADDING_HORIZONTAL * 2
             total_height == IF max_line_width > available
                             THEN WrapCorrection(summed, max_line_width, available)
                             ELSE summed
         IN  <<width, Max(min_height, total_height)>>

\* max_line_width / (max_width - PADDING_HORIZONTAL * 2) with a divisor of 0
WrapDividesByZero(text, max_width) ==
    /\ text # EmptyText
    /\ max_width - PADDING_HORIZONTAL * 2 = 0
    /\ SeqMax(LineWidths(text)) > 0

CalculateNodeDimensions(text, node_type, base_width, base_height) ==
    LET dims == CalculateTextDimensions(text, base_width,
                                        Max(base_width * 2, MAX_WIDTH), base_height)
    IN  CASE node_type = "group" -> <<dims[1], dims[2] + 30>>
          [] node_type = "decision" -> <<Max(dims[1], 220), dims[2]>>
          [] node_type \in {"start", "end"} -> <<Max(Min(dims[1], 250), 180), dims[2]>>
          [] OTHER -> dims


(***************************************************************************)
(* canvas/models.py: the coordinates and identity of a node, an edge.      *)
(***************************************************************************)
Node(id, type, x, y, width, height, color, label) ==
    [id |-> id, type |-> type, x |-> x, y |-> y, width |-> width,
     height |-> height, color |-> color, label |-> label]

TextNode(x, y, width, height, color, node_id) ==
    Node(node_id, "text", x, y, width, height, color, None)

EdgeCreate(from_node, to_node, from_side, to_side, label, color) ==
    [from_node |-> from_node, to_node |-> to_node, from_side |-> from_side,
     to_side |-> to_side, label |-> label, color |-> color]

(***************************************************************************)
(* canvas/models.py: Node.to_dict and Edge.to_dict.  The objects carry     *)
(* every attribute of the dataclass; the dictionary is a function from its *)
(* keys.                                                                   *)
(***************************************************************************)
NodeTypes == {"text", "file", "link", "group"}

\* the attributes that default to None
NodeOptionals ==
    {"color", "text", "file", "subpath", "url", "label", "background",
     "background_style"}

EdgeOptionals == {"from_side", "to_side", "from_end", "to_end", "color", "label"}

\* a Node whose attributes in given are set, each to a value of its own
NodeObject(type, given) ==
    LET value(attr) == IF attr \in given THEN "the " \o attr ELSE None
    IN  [id |-> "n1", type |-> type, x |-> 10, y |-> -20, width |-> 250,
         height |-> 60, color |-> value("color"), text |-> value("text"),
         file |-> value("file"), subpath |-> value("subpath"),
         url |-> value("url"), label |-> value("label"),
         background |-> value("background"),
         background_style |-> value("background_style")]

\* an Edge whose attributes in given are set, each to a value of its own
EdgeObject(given) ==
    LET value(attr) == IF attr \in given THEN "the " \o attr ELSE None
    IN  [id |-> "e1", from_node |-> "n1", to_node |-> "n2",
         from_side |-> value("from_side"), to_side |-> value("to_side"),
         from_end |-> value("from_end"), to_end |-> value("to_end"),
         color |-> value("color"), label |-> value("label")]

\* Faulty variant: the key is written whether or not the value is set.
PutAlways(d, key, value) == DictSet(d, key, value)

\* if value is not None: result[key] = value
PutIfSet(d, key, value) == IF value # None THEN DictSet(d, key, value) ELSE d

NodeToDict(node) ==
    LET result == PutIfSet([id |-> node.id, type |-> node.type, x |-> node.x,
                            y |-> node.y, width |-> node.width,
                            height |-> node.height],
                           "color", node.color)
    IN  IF node.type = "text" /\ node.text # None
        THEN DictSet(result, "text", node.text)
        ELSE IF node.type = "file"
        THEN PutIfSet(PutIfSet(result, "file", node.file), "subpath", node.subpath)
        ELSE IF node.type = "link" /\ node.url # None
        THEN DictSet(result, "url", node.url)
        ELSE IF node.type = "group"
        THEN PutIfSet(PutIfSet(PutIfSet(result, "label", node.label),
                               "background", node.background),
                      "backgroundStyle", node.background_style)
        ELSE result

EdgeToDict(edge) ==
    LET ends == [id |-> edge.id, fromNode |-> edge.from_node, toNode |-> edge.to_node]
        sides == PutIfSet(PutIfSet(ends, "fromSide", edge.from_side),
                          "toSide", edge.to_side)
        shapes == PutIfSet(PutIfSet(sides, "fromEnd", edge.from_end),
                           "toEnd", edge.to_end)
    IN  PutIfSet(PutIfSet(shapes, "color", edge.color), "label", edge.label)

(***************************************************************************)
(* ai/canvas_adapter.py: tables and constructor defaults.                  *)
(***************************************************************************)
node_width == 250
node_height == 80
h_spacing == 110
v_spacing == 90
data_section_x == 900

STEP_COLORS(step_type, default) ==
    CASE step_type \in {"start", "end"} -> "4"
      [] step_type = "process" -> "5"
      [] step_type = "decision" -> "3"
      [] step_type = "data" -> "6"
      [] step_type = "error" -> "1"
      [] OTHER -> default

STEP_BASE_WIDTHS(step_type, default) ==
    CASE step_type \in {"start", "end", "error"} -> 220
      [] step_type \in {"process", "data"} -> 280
      [] step_type = "decision" -> 250
      [] OTHER -> default

STEP_MIN_HEIGHTS(step_type, default) ==
    CASE step_type \in {"start", "end", "error"} -> 60
      [] step_type \in {"process", "data"} -> 80
      [] step_type = "decision" -> 70
      [] OTHER -> default

\* len(icon) of _create_step_node's icons table, in code points
IconLen(step_type) ==
    IF step_type \in {"start", "process"} THEN 2 ELSE 1

KnownStepTypes == {"start", "process", "decision", "data", "end", "error"}

\* len(", ".join(items[:4])) for items given by their lengths
JoinedLen(items) ==
    LET k == Min(Len(items), 4)
    IN  SeqSum(SubSeq(items, 1, k)) + 2 * (k - 1)

\* The lines of the text _create_step_node builds.  The default icon is a
\* bullet followed by a space, which _calculate_line_dimensions takes for a
\* bullet line.
StepText(step) ==
    LET step_type == IF step.step_type = "" THEN "process" ELSE step.step_type
        head == Line(IF step_type \in KnownStepTypes THEN "plain" ELSE "bullet",
                     IconLen(step_type) + 1 + step.name_len)
    IN  <<head>>
        \o (IF step.desc_len > 0 THEN <<Line("plain", step.desc_len)>> ELSE <<>>)
        \o (IF step.func_len > 0 THEN <<Line("code", step.func_len + 2)>> ELSE <<>>)
        \o (IF step.inputs # <<>>
            THEN <<Line("plain", 3 + JoinedLen(step.inputs))>> ELSE <<>>)
        \o (IF step.outputs # <<>>
            THEN <<Line("plain", 3 + JoinedLen(step.outputs))>> ELSE <<>>)

StepNodeId(step_id) == <<"step", step_id>>

CreateStepNode(step, x, y) ==
    LET step_type == IF step.step_type = "" THEN "process" ELSE step.step_type
        dims == CalculateNodeDimensions(StepText(step), step_type,
                                        STEP_BASE_WIDTHS(step_type, node_width),
                                        STEP_MIN_HEIGHTS(step_type, node_height))
    IN  TextNode(x, y, dims[1], dims[2], STEP_COLORS(step_type, "5"),
                 StepNodeId(step.id))

\* "## <icon> Fluxo de Execucao", a blank line, the summary
SummaryText(summary_len) ==
    <<Line("h2", 19), Line("blank", 0),
      IF summary_len = 0 THEN Line("blank", 0) ELSE Line("plain", summary_len)>>

CreateSummaryNode(summary_len) ==
    LET dims == CalculateNodeDimensions(SummaryText(summary_len), "text",
                                        node_width * 3, 80)
    IN  TextNode(0, 0, dims[1], dims[2], None, <<"summary", "">>)

\* Faulty variant: equal |dx| and |dy| count as vertical.
DetermineSidesTieVertical(from_pos, to_pos) ==
    LET dx == to_pos[1] - from_pos[1]
        dy == to_pos[2] - from_pos[2]
    IN  IF Abs(dy) >= Abs(dx)
        THEN (IF dy > 0 THEN <<"bottom", "top">> ELSE <<"top", "bottom">>)
        ELSE (IF dx > 0 THEN <<"right", "left">> ELSE <<"left", "right">>)

DetermineSides(from_pos, to_pos) ==
    LET dx == to_pos[1] - from_pos[1]
        dy == to_pos[2] - from_pos[2]
    IN  IF Abs(dy) > Abs(dx)
        THEN (IF dy > 0 THEN <<"bottom", "top">> ELSE <<"top", "bottom">>)
        ELSE (IF dx > 0 THEN <<"right", "left">> ELSE <<"left", "right">>)

(***************************************************************************)
(* canvas/layout.py: LayoutItem and the constructors of LayoutEngine.      *)
(* A leaf keeps the position of the Node it wraps (node_x, node_y), which  *)
(* calculate_positions overwrites in place.                                *)
(***************************************************************************)
default_node_width == 250
default_node_height == 60
default_spacing == 40
default_padding == 20

LayoutItem(layout_type, width, height, children, label, padding, spacing) ==
    [layout_type |-> layout_type, width |-> width, height |-> height,
     children |-> children, label |-> label, padding |-> padding,
     spacing |-> spacing, node_x |-> 0, node_y |-> 0]

\* node(text, width, height): "width or default", so 0 gives the default
NodeItem(width, height) ==
    LayoutItem("node",
               IF width = 0 THEN default_node_width ELSE width,
               IF height = 0 THEN default_node_height ELSE height,
               <<>>, None, default_padding, default_spacing)

Row(items, spacing) ==
    LayoutItem("row", default_node_width, default_node_height, items, None,
               default_padding, spacing)

Column(items, spacing) ==
    LayoutItem("column", default_node_width, default_node_height, items, None,
               default_padding, spacing)

Group(label, content, padding) ==
    LayoutItem("group", default_node_width, default_node_height, <<content>>, label,
               padding, default_spacing)

(***************************************************************************)
(* LayoutEngine.calculate_size                                             *)
(***************************************************************************)
\* the row loop from child i on: (total_width, max_height)
\* Faulty variant: the spacing is added after the last child too.
RECURSIVE RowSizeLoopTrailingSpacing(_, _, _, _, _)
RowSizeLoopTrailingSpacing(sizes, i, spacing, total_width, max_height) ==
    IF i > Len(sizes) THEN <<total_width, max_height>>
    ELSE RowSizeLoopTrailingSpacing(sizes, i + 1, spacing,
                                    total_width + sizes[i][1] + spacing,
                                    Max(max_height, sizes[i][2]))

RECURSIVE RowSizeLoop(_, _, _, _, _)
RowSizeLoop(sizes, i, spacing, total_width, max_height) ==
    IF i > Len(sizes) THEN <<total_width, max_height>>
    ELSE RowSizeLoop(sizes, i + 1, spacing,
                     total_width + sizes[i][1]
                         + (IF i - 1 < Len(sizes) - 1 THEN spacing ELSE 0),
                     Max(max_height, sizes[i][2]))

\* the column loop from child i on: (max_width, total_height)
RECURSIVE ColumnSizeLoop(_, _, _, _, _)
ColumnSizeLoop(sizes, i, spacing, max_width, total_height) ==
    IF i > Len(sizes) THEN <<max_width, total_height>>
    ELSE ColumnSizeLoop(sizes, i + 1, spacing,
                        Max(max_width, sizes[i][1]),
                        total_height + sizes[i][2]
                            + (IF i - 1 < Len(sizes) - 1 THEN spacing ELSE 0))

\* Faulty variant: the 30 units of the title are forgotten.
GroupSizeNoTitle(content_size, padding) ==
    <<content_size[1] + 2 * padding, content_size[2] + 2 * padding>>

\* Faulty variant: the group is as large as its content and no larger.
GroupSizeContentOnly(content_size, padding) == content_size

GroupSize(content_size, padding) ==
    <<content_size[1] + 2 * padding, content_size[2] + 2 * padding + 30>>

RECURSIVE CalculateSize(_)
CalculateSize(item) ==
    LET sizes == Evaluated([i \in 1..Len(item.children) |->
                               CalculateSize(item.children[i])])
    IN  CASE item.layout_type = "node" -> <<item.width, item.height>>
          [] item.layout_type # "node" /\ item.children = <<>> -> <<0, 0>>
          [] item.layout_type = "row" /\ item.children # <<>> ->
                RowSizeLoop(sizes, 1, item.spacing, 0, 0)
          [] item.layout_type = "column" /\ item.children # <<>> ->
                ColumnSizeLoop(sizes, 1, item.spacing, 0, 0)
          [] item.layout_type = "group" /\ item.children # <<>> ->
                GroupSize(sizes[1], item.padding)
          [] OTHER -> <<item.width, item.height>>

(***************************************************************************)
(* LayoutEngine.calculate_positions.  A node's id stands for the object:   *)
(* the path of child indices from the root item to the item it is for.     *)
(***************************************************************************)
LayoutResult(nodes, width, height, item) ==
    [nodes |-> nodes, width |-> width, height |-> height, item |-> item]

\* Faulty variant: the cursor advances by the spacing alone.
CursorSpacingOnly(sizes, dim, i, start, spacing) ==
    IF i <= 1 THEN start ELSE start + (i - 1) * spacing

\* current_x (row) or current_y (column) when the loop reaches child i
RECURSIVE Cursor(_, _, _, _, _)
Cursor(sizes, dim, i, start, spacing) ==
    IF i <= 1 THEN start
    ELSE Cursor(sizes, dim, i - 1, start, spacing) + sizes[i - 1][dim] + spacing

\* Faulty variant: the children are aligned to the top of the row.
RowChildYTop(start_y, row_height, child_h) == start_y

\* child_y of a row's child: centred in the row's height
RowChildY(start_y, row_height, child_h) == start_y + ((row_height - child_h) \div 2)

\* Faulty variant: the spacing between the children is forgotten.
ColumnChildOriginNoSpacing(sizes, i, start_x, start_y, spacing) ==
    <<start_x, Cursor(sizes, 2, i, start_y, 0)>>

\* where a column hands its child i: (start_x, current_y)
ColumnChildOrigin(sizes, i, start_x, start_y, spacing) ==
    <<start_x, Cursor(sizes, 2, i, start_y, spacing)>>

\* Faulty variant: no room is left for the label.
GroupContentOriginNoLabel(start_x, start_y, padding) ==
    <<start_x + padding, start_y + padding>>

\* where a group hands its content
GroupContentOrigin(start_x, start_y, padding) ==
    <<start_x + padding, start_y + padding + 30>>

\* Faulty variant: the leaf is moved by the origin from where it stood.
PlaceLeafRelative(item, start_x, start_y, path) ==
    LayoutResult(<<Node(path, "text", item.node_x + start_x, item.node_y + start_y,
                        item.width, item.height, None, None)>>,
                 item.width, item.height,
                 [item EXCEPT !.node_x = item.node_x + start_x,
                              !.node_y = item.node_y + start_y])

\* the leaf's own node, moved to the origin
PlaceLeaf(item, start_x, start_y, path) ==
    LayoutResult(<<Node(path, "text", start_x, start_y, item.width, item.height,
                        None, None)>>,
                 item.width, item.height,
                 [item EXCEPT !.node_x = start_x, !.node_y = start_y])

\* Faulty variant: the frame is not emitted.
GroupNodesContentOnly(frame, content_nodes) == content_nodes

\* Faulty variant: the frame is emitted after the content.
GroupNodesFrameLast(frame, content_nodes) == content_nodes \o <<frame>>

\* a group's node list: the frame, then what the content returned
GroupNodes(frame, content_nodes) == <<frame>> \o content_nodes

RECURSIVE CalculatePositions(_, _, _, _)
CalculatePositions(item, start_x, start_y, path) ==
    LET n == Len(item.children)
        sizes == Evaluated([i \in 1..n |-> CalculateSize(item.children[i])])
        own == CalculateSize(item)
        row_results ==
            Evaluated([i \in 1..n |->
                CalculatePositions(item.children[i],
                                   Cursor(sizes, 1, i, start_x, item.spacing),
                                   RowChildY(start_y, own[2], sizes[i][2]),
                                   Append(path, i))])
        column_results ==
            Evaluated([i \in 1..n |->
                LET o == ColumnChildOrigin(sizes, i, start_x, start_y, item.spacing)
                IN  CalculatePositions(item.children[i], o[1], o[2], Append(path, i))])
        content_result ==
            LET o == GroupContentOrigin(start_x, start_y, item.padding)
            IN  CalculatePositions(item.children[1], o[1], o[2], Append(path, 1))
        placed(results) == [item EXCEPT !.children = [i \in 1..n |-> results[i].item]]
        nodes_of(results) == Flatten([i \in 1..n |-> results[i].nodes])
    IN  CASE item.layout_type = "node" -> PlaceLeaf(item, start_x, start_y, path)
          [] item.layout_type = "row" ->
                LayoutResult(nodes_of(row_results),
                             IF n > 0
                             THEN Cursor(sizes, 1, n + 1, start_x, item.spacing)
                                  - item.spacing - start_x
                             ELSE 0,
                             SeqMax([i \in 1..n |-> sizes[i][2]]),
                             placed(row_results))
          [] item.layout_type = "column" ->
                LayoutResult(nodes_of(column_results),
                             SeqMax([i \in 1..n |-> sizes[i][1]]),
                             IF n > 0
                             THEN Cursor(sizes, 2, n + 1, start_y, item.spacing)
                                  - item.spacing - start_y
                             ELSE 0,
                             placed(column_results))
          [] item.layout_type = "group" ->
                LET frame == Node(path, "group", start_x, start_y, own[1], own[2],
                                  None, IF item.label = None THEN "" ELSE item.label)
                IN  IF n > 0
                    THEN LayoutResult(GroupNodes(frame, content_result.nodes),
                                      own[1], own[2],
                                      [item EXCEPT !.children = <<content_result.item>>])
                    ELSE LayoutResult(<<frame>>, own[1], own[2], item)
          [] OTHER -> LayoutResult(<<>>, 0, 0, item)

(***************************************************************************)
(* ai/models.py: FlowStep, FlowConnection, CodeFlow, AnalysisResult.       *)
(***************************************************************************)
FlowStep(id, step_type, name_len) ==
    [id |-> id, step_type |-> step_type, name_len |-> name_len,
     desc_len |-> 0, func_len |-> 0, inputs |-> <<>>, outputs |-> <<>>]

\* a step whose description differs from its name
DescribedStep(id, step_type, name_len, desc_len) ==
    [FlowStep(id, step_type, name_len) EXCEPT !.desc_len = desc_len]

FlowConnection(from_step, to_step, label, is_error) ==
    [from_step |-> from_step, to_step |-> to_step, label |-> label,
     is_error |-> is_error]

CodeFlow(steps, connections) == [steps |-> steps, connections |-> connections]

AnalysisResult(summary_len, main_flow, sub_flows, data_formats) ==
    [summary_len |-> summary_len, main_flow |-> main_flow,
     sub_flows |-> sub_flows, data_formats |-> data_formats]

VARIABLES
    pending,         \* the analyses still to be converted by this adapter
    analysis,        \* the argument of the running convert call
    pc,              \* where the running call stands
    node_positions,  \* self._node_positions
    step_node_ids,   \* self._step_node_ids
    canvas,          \* the canvas convert is filling
    flow_idx,        \* 0: main_flow, i: sub_flows[i]
    sub_start_y,     \* convert's sub_start_y
    positions,       \* _calculate_positions: positions
    visited,         \* _calculate_positions: visited
    queue,           \* _calculate_positions: queue
    current_y,       \* _calculate_positions: current_y
    root_idx,        \* how many of start_steps the for loop has taken
    placed_via,      \* history: the queue entry each position came from
    flow_out,        \* history: what _process_flow returned, per flow
    returned,        \* history: the canvases returned by the finished calls
    item,            \* the LayoutItem tree handed to the LayoutEngine
    size_out,        \* history: what calculate_size returned for item
    layout_out,      \* history: the calculate_positions calls and their results
    subject,         \* the Node or Edge whose to_dict is called
    dict_out,        \* history: what to_dict returned for subject
    text_call,       \* the arguments of a calculate_text_dimensions call
    text_out,        \* history: how the call ended
    code_root,       \* the CodeElement handed to CodeToCanvasAdapter.convert
    code_out         \* history: the canvas and _node_map the call left

adapter == <<pending, analysis, node_positions, step_node_ids, canvas, flow_idx,
             sub_start_y, positions, visited, queue, current_y, root_idx,
             placed_via, flow_out, returned>>

engine == <<item, size_out, layout_out>>

serial == <<subject, dict_out>>

sizing == <<text_call, text_out>>

code == <<code_root, code_out>>

vars == <<pc, adapter, engine, serial, sizing, code>>

traversal == <<positions, visited, queue, current_y, root_idx, placed_via>>

(***************************************************************************)
(* _process_flow's arguments as convert passes them.                       *)
(***************************************************************************)
CurFlow == IF flow_idx = 0 THEN analysis.main_flow ELSE analysis.sub_flows[flow_idx]
StartX == IF flow_idx = 0 THEN 0 ELSE data_section_x + 400
StartY == IF flow_idx = 0 THEN 100 ELSE sub_start_y

(***************************************************************************)
(* _calculate_positions                                                    *)
(***************************************************************************)
IsStart(step) == step.step_type = "start"

\* Faulty variant: no fallback to the first declared step.
StartStepsOnly(flow) == SelectSeq(flow.steps, IsStart)

StartSteps(flow) ==
    LET starts == SelectSeq(flow.steps, IsStart)
    IN  IF starts = <<>> THEN SubSeq(flow.steps, 1, Min(1, Len(flow.steps)))
        ELSE starts

ConnectionsFrom(flow, step_id) ==
    LET from_it(conn) == conn.from_step = step_id
    IN  SelectSeq(flow.connections, from_it)

\* next_steps.get(step_id, []), the to_step of each pair
NextSteps(flow, step_id) ==
    LET conns == ConnectionsFrom(flow, step_id)
    IN  [i \in 1..Len(conns) |-> conns[i].to_step]

\* next((s for s in flow.steps if s.id == step_id), None), as an index or 0
FindStep(flow, step_id) ==
    LET hits == {i \in 1..Len(flow.steps) : flow.steps[i].id = step_id}
    IN  IF hits = {} THEN 0 ELSE CHOOSE i \in hits : \A j \in hits : i <= j

CurrentX(start_x) == start_x + node_width

QueueEntry(step_id, x, y, branch, via) ==
    [step_id |-> step_id, x |-> x, y |-> y, branch |-> branch, via |-> via]

\* Faulty variant: of two successors the first goes right, the second straight.
SuccessorXSwapped(x, step_w, n, i) ==
    CASE n = 1 -> x
      [] n = 2 -> IF i = 0 THEN x + step_w + h_spacing ELSE x
      [] OTHER -> x + (i - (n \div 2)) * (step_w + h_spacing)

\* Faulty variant: three or more successors fan out to the right only.
SuccessorXUncentred(x, step_w, n, i) ==
    CASE n = 1 -> x
      [] n = 2 -> IF i = 0 THEN x ELSE x + step_w + h_spacing
      [] OTHER -> x + i * (step_w + h_spacing)

\* x of the entry queued for the successor at 0-based index i of n
SuccessorX(x, step_w, n, i) ==
    CASE n = 1 -> x
      [] n = 2 -> IF i = 0 THEN x ELSE x + step_w + h_spacing
      [] OTHER -> x + (i - (n \div 2)) * (step_w + h_spacing)

SuccessorBranch(branch, n, i) ==
    CASE n = 1 -> branch
      [] n = 2 -> IF i = 0 THEN branch ELSE branch + 1
      [] OTHER -> branch + i

\* Faulty variant: the vertical spacing is forgotten.
SuccessorYNoSpacing(y, step_h) == y + step_h

\* y of every entry queued from a step placed at y
SuccessorY(y, step_h) == y + step_h + v_spacing

\* Faulty variant: a successor is queued whether visited or not.
SuccessorEntriesUnfiltered(flow, step, x, y, branch, seen) ==
    LET nexts == NextSteps(flow, step.id)
        n == Len(nexts)
        step_w == STEP_BASE_WIDTHS(step.step_type, node_width)
        step_h == STEP_MIN_HEIGHTS(step.step_type, node_height)
    IN  [i \in 1..n |-> QueueEntry(nexts[i], SuccessorX(x, step_w, n, i - 1),
                                   SuccessorY(y, step_h),
                                   SuccessorBranch(branch, n, i - 1),
                                   <<step.id, i - 1>>)]

\* The entries one iteration appends for the step placed at (x, y), in order.
SuccessorEntries(flow, step, x, y, branch, seen) ==
    LET nexts == NextSteps(flow, step.id)
        n == Len(nexts)
        step_w == STEP_BASE_WIDTHS(step.step_type, node_width)
        step_h == STEP_MIN_HEIGHTS(step.step_type, node_height)
        entry(i) == IF nexts[i] \in seen THEN <<>>
                    ELSE <<QueueEntry(nexts[i], SuccessorX(x, step_w, n, i - 1),
                                      SuccessorY(y, step_h),
                                      SuccessorBranch(branch, n, i - 1),
                                      <<step.id, i - 1>>)>>
    IN  Flatten([i \in 1..n |-> entry(i)])

\* Faulty variant: the running y stays where it was.
AdvanceYNever(y_so_far, y, step_h) == y_so_far

\* current_y = max(current_y, y + step_h + self.v_spacing)
AdvanceY(y_so_far, y, step_h) == Max(y_so_far, y + step_h + v_spacing)

\* Faulty variant: the head is read and left in the queue.
PopLeftPeek(q) == q

\* queue.pop(0): the queue left behind
PopLeft(q) == Tail(q)

\* Faulty variant: the steps never reached get no position.
PlaceUnreachedStepsNone(steps, pos, x, y) == pos

\* for step in flow.steps: if step.id not in positions
RECURSIVE PlaceUnreachedSteps(_, _, _, _)
PlaceUnreachedSteps(steps, pos, x, y) ==
    IF steps = <<>> THEN pos
    ELSE IF Head(steps).id \in DOMAIN pos
         THEN PlaceUnreachedSteps(Tail(steps), pos, x, y)
         ELSE PlaceUnreachedSteps(Tail(steps), DictSet(pos, Head(steps).id, <<x, y>>),
                                  x, y + node_height + v_spacing)

(***************************************************************************)
(* _process_flow, after the positions are known.                           *)
(***************************************************************************)
\* The node of each declared step, in declaration order.
FlowNodes(flow, pos, start_x, start_y) ==
    [i \in 1..Len(flow.steps) |->
        LET p == DictGet(pos, flow.steps[i].id, <<start_x, start_y>>)
        IN  CreateStepNode(flow.steps[i], p[1], p[2])]

StepIdsOf(flow) == {flow.steps[i].id : i \in 1..Len(flow.steps)}

\* self._step_node_ids after the loop over flow.steps
RecordNodeIds(ids, flow) ==
    [k \in (DOMAIN ids) \cup StepIdsOf(flow) |->
        IF k \in StepIdsOf(flow) THEN StepNodeId(k) ELSE ids[k]]

\* self._node_positions after the loop over flow.steps
RecordNodePositions(np, flow, pos, start_x, start_y) ==
    [k \in (DOMAIN np) \cup StepIdsOf(flow) |->
        IF k \in StepIdsOf(flow) THEN DictGet(pos, k, <<start_x, start_y>>)
        ELSE np[k]]

\* "if from_id and to_id" for one connection
EdgeEmitted(ids, conn) ==
    /\ DictGet(ids, conn.from_step, None) # None
    /\ DictGet(ids, conn.to_step, None) # None

\* Faulty variant: every edge gets the error color.
EdgeColorAlways(conn) == "1"

\* color="1" if conn.is_error else None
EdgeColor(conn) == IF conn.is_error THEN "1" ELSE None

\* The edge of each connection whose two ends are found, in declaration order.
FlowEdges(flow, ids, np) ==
    LET edge(conn) ==
            IF EdgeEmitted(ids, conn)
            THEN LET sides == DetermineSides(DictGet(np, conn.from_step, <<0, 0>>),
                                             DictGet(np, conn.to_step, <<0, 0>>))
                 IN  <<EdgeCreate(ids[conn.from_step], ids[conn.to_step],
                                  sides[1], sides[2], conn.label,
                                  EdgeColor(conn))>>
            ELSE <<>>
    IN  Flatten([i \in 1..Len(flow.connections) |-> edge(flow.connections[i])])

(***************************************************************************)
(* _create_data_section, _create_data_format_node                          *)
(***************************************************************************)
Digits(n) == IF n < 10 THEN 1 ELSE IF n < 100 THEN 2 ELSE 3

DataFormatText(data_format) ==
    LET fields == data_format.fields
        shown == SubSeq(fields, 1, Min(Len(fields), 6))
    IN  <<Line("h3", data_format.name_len), Line("blank", 0),
          IF data_format.desc_len = 0 THEN Line("blank", 0)
          ELSE Line("plain", data_format.desc_len)>>
        \o (IF fields = <<>> THEN <<>>
            ELSE <<Line("blank", 0)>>
                 \o [i \in 1..Len(shown) |-> Line("bullet", 2 + shown[i])]
                 \o (IF Len(fields) > 6
                     THEN <<Line("bullet", 16 + Digits(Len(fields) - 6))>>
                     ELSE <<>>))

CreateDataFormatNode(data_format, y) ==
    LET dims == CalculateNodeDimensions(DataFormatText(data_format), "data", 320, 80)
    IN  TextNode(data_section_x, y, dims[1], dims[2], "4",
                 <<"data", data_format.name>>)

RECURSIVE DataFormatNodes(_, _)
DataFormatNodes(data_formats, y) ==
    IF data_formats = <<>> THEN <<>>
    ELSE LET node == CreateDataFormatNode(Head(data_formats), y)
         IN  <<node>> \o DataFormatNodes(Tail(data_formats), y + node.height + 20)

CreateDataSection(data_formats) ==
    <<TextNode(data_section_x, 0, 300, 50, "4", <<"data_section_title", "">>)>>
    \o DataFormatNodes(data_formats, 70)

(***************************************************************************)
(* The adapter's operations.                                               *)
(***************************************************************************)
\* Faulty variant: the entries of the earlier conversions are kept.
ClearNothing(d) == d

\* dict.clear()
Clear(d) == EmptyDict

\* convert, up to the call of _process_flow for the main flow
Convert ==
    /\ pc = "idle"
    /\ pending # <<>>
    /\ analysis' = Head(pending)
    /\ pending' = Tail(pending)
    /\ node_positions' = Clear(node_positions)
    /\ step_node_ids' = Clear(step_node_ids)
    /\ canvas' = [nodes |-> <<CreateSummaryNode(Head(pending).summary_len)>>,
                  edges |-> <<>>]
    /\ flow_idx' = 0
    /\ sub_start_y' = 100
    /\ flow_out' = <<>>
    /\ pc' = "flow"
    /\ UNCHANGED <<traversal, returned>>

\* convert, once _process_flow has returned (nodes, edges) for the current flow
FlowReturns(nodes, edges) ==
    /\ canvas' = [nodes |-> canvas.nodes \o nodes, edges |-> canvas.edges \o edges]
    /\ flow_out' = Append(flow_out, [nodes |-> nodes, edges |-> edges])
    /\ sub_start_y' =
          IF flow_idx > 0 /\ nodes # <<>>
          THEN SeqMax([i \in 1..Len(nodes) |-> nodes[i].y + nodes[i].height])
               + v_spacing * 2
          ELSE sub_start_y
    /\ IF flow_idx < Len(analysis.sub_flows)
       THEN pc' = "flow" /\ flow_idx' = flow_idx + 1
       ELSE pc' = "data" /\ flow_idx' = flow_idx

\* _process_flow up to the traversal; a flow without steps returns at once
ProcessFlow ==
    /\ pc = "flow"
    /\ IF CurFlow.steps = <<>>
       THEN /\ FlowReturns(<<>>, <<>>)
            /\ UNCHANGED <<traversal, node_positions, step_node_ids>>
       ELSE /\ positions' = EmptyDict
            /\ visited' = {}
            /\ queue' = <<>>
            /\ current_y' = StartY
            /\ root_idx' = 0
            /\ placed_via' = EmptyDict
            /\ pc' = "bfs"
            /\ UNCHANGED <<node_positions, step_node_ids, canvas, flow_idx,
                           sub_start_y, flow_out>>
    /\ UNCHANGED <<pending, analysis, returned>>

\* for start in start_steps: the next start step seeds the queue
NextRoot ==
    /\ pc = "bfs"
    /\ queue = <<>>
    /\ root_idx < Len(StartSteps(CurFlow))
    /\ root_idx' = root_idx + 1
    /\ LET start == StartSteps(CurFlow)[root_idx + 1]
       IN  queue' = IF start.id \in visited THEN <<>>
                    ELSE <<QueueEntry(start.id, CurrentX(StartX), current_y, 0,
                                      <<"root", root_idx>>)>>
    /\ UNCHANGED <<pending, analysis, pc, node_positions, step_node_ids, canvas,
                   flow_idx, sub_start_y, positions, visited, current_y,
                   placed_via, flow_out, returned>>

\* one iteration of "while queue"
Dequeue ==
    /\ pc = "bfs"
    /\ queue # <<>>
    /\ LET e == Head(queue)
           rest == PopLeft(queue)
           k == FindStep(CurFlow, e.step_id)
       IN  IF e.step_id \in visited
           THEN /\ queue' = rest
                /\ UNCHANGED <<positions, visited, current_y, placed_via>>
           ELSE IF k = 0
           THEN /\ queue' = rest
                /\ visited' = visited \cup {e.step_id}
                /\ UNCHANGED <<positions, current_y, placed_via>>
           ELSE LET step == CurFlow.steps[k]
                    step_h == STEP_MIN_HEIGHTS(step.step_type, node_height)
                IN  /\ visited' = visited \cup {e.step_id}
                    /\ positions' = DictSet(positions, e.step_id, <<e.x, e.y>>)
                    /\ placed_via' = DictSet(placed_via, e.step_id, e.via)
                    /\ queue' = rest \o SuccessorEntries(CurFlow, step, e.x, e.y,
                                                         e.branch, visited')
                    /\ current_y' = AdvanceY(current_y, e.y, step_h)
    /\ UNCHANGED <<pending, analysis, pc, node_positions, step_node_ids, canvas,
                   flow_idx, sub_start_y, root_idx, flow_out, returned>>

\* the steps never reached, then the rest of _process_flow and its return
PlaceUnreached ==
    /\ pc = "bfs"
    /\ queue = <<>>
    /\ root_idx = Len(StartSteps(CurFlow))
    /\ positions' = PlaceUnreachedSteps(CurFlow.steps, positions,
                                        CurrentX(StartX) + node_width * 2, current_y)
    /\ pc' = "emit"
    /\ UNCHANGED <<pending, analysis, node_positions, step_node_ids, canvas,
                   flow_idx, sub_start_y, visited, queue, current_y, root_idx,
                   placed_via, flow_out, returned>>

EmitFlow ==
    /\ pc = "emit"
    /\ step_node_ids' = RecordNodeIds(step_node_ids, CurFlow)
    /\ node_positions' = RecordNodePositions(node_positions, CurFlow, positions,
                                             StartX, StartY)
    /\ FlowReturns(FlowNodes(CurFlow, positions, StartX, StartY),
                   FlowEdges(CurFlow, step_node_ids', node_positions'))
    /\ UNCHANGED <<pending, analysis, traversal, returned>>

\* convert's data section and return
Return ==
    /\ pc = "data"
    /\ canvas' = IF analysis.data_formats # <<>>
                 THEN [canvas EXCEPT !.nodes =
                          canvas.nodes \o CreateDataSection(analysis.data_formats)]
                 ELSE canvas
    /\ returned' = Append(returned, [input |-> analysis, canvas |-> canvas'])
    /\ pc' = "idle"
    /\ UNCHANGED <<pending, analysis, node_positions, step_node_ids, flow_idx,
                   sub_start_y, traversal, flow_out>>

(***************************************************************************)
(* The inputs explored.  Step ids are pairwise distinct within a flow; a   *)
(* connection may name any declared id or an id no step has.  Names are    *)
(* plain text (no markup), descriptions repeat the name, and no function,  *)
(* inputs or outputs are given.                                            *)
(***************************************************************************)
IdNames == <<"s1", "s2", "s3", "s4", "s5", "s6">>
UnknownId == "zz"
StepTypes == {"start", "process", "custom"}
ShortName == 4
SummaryLen == 12

\* the steps s<i>, i in idxs, in increasing order of i, with the types t[i]
RECURSIVE StepsOf(_, _)
StepsOf(idxs, t) ==
    IF idxs = {} THEN <<>>
    ELSE LET i == CHOOSE j \in idxs : \A m \in idxs : j <= m
         IN  <<FlowStep(IdNames[i], t[i], ShortName)>> \o StepsOf(idxs \ {i}, t)

ConnsOf(c) == [i \in 1..Len(c) |-> FlowConnection(c[i][1], c[i][2], None, FALSE)]

ConnEnds(idxs) == {IdNames[i] : i \in idxs} \cup {UnknownId}

EmptyFlow == CodeFlow(<<>>, <<>>)

DataFormat(name, name_len, desc_len, fields) ==
    [name |-> name, name_len |-> name_len, desc_len |-> desc_len, fields |-> fields]

DataChoices == {<<>>, <<DataFormat("d1", 6, 10, <<3, 5>>)>>}

InitAdapter ==
    /\ analysis = AnalysisResult(0, EmptyFlow, <<>>, <<>>)
    /\ node_positions = EmptyDict
    /\ step_node_ids = EmptyDict
    /\ canvas = [nodes |-> <<>>, edges |-> <<>>]
    /\ flow_idx = 0
    /\ sub_start_y = 100
    /\ positions = EmptyDict
    /\ visited = {}
    /\ queue = <<>>
    /\ current_y = 0
    /\ root_idx = 0
    /\ placed_via = EmptyDict
    /\ flow_out = <<>>
    /\ returned = <<>>

NoItem == NodeItem(0, 0)

InitEngine ==
    /\ size_out = <<>>
    /\ layout_out = <<>>

NoSubject == [class |-> None, object |-> None]

NoTextCall == [text |-> EmptyText, min_width |-> 0, max_width |-> 0, min_height |-> 0]

InitSizing ==
    /\ text_call = NoTextCall
    /\ text_out = <<>>

InitSerial ==
    /\ subject = NoSubject
    /\ dict_out = EmptyDict

\* no convert call on a CodeToCanvasAdapter
InitCode ==
    /\ code_root = [name |-> <<>>, element_type |-> "module", calls |-> <<>>,
                    children |-> <<>>]
    /\ code_out = <<>>

\* One conversion of a main flow alone: every graph on up to MaxSteps steps
\* and MaxConns connections.
InitGraph ==
    /\ \E n \in 1..MaxSteps, k \in 0..MaxConns :
         \E t \in [1..n -> StepTypes],
            c \in [1..k -> ConnEnds(1..n) \X ConnEnds(1..n)] :
           pending = <<AnalysisResult(SummaryLen, CodeFlow(StepsOf(1..n, t), ConnsOf(c)),
                                      <<>>, <<>>)>>
    /\ pc = "idle"
    /\ InitAdapter
    /\ item = NoItem
    /\ InitEngine
    /\ InitSerial
    /\ InitCode
    /\ InitSizing

\* Small flows whose step ids come from a pool shared by the flows of one
\* analysis, so that flows may name each other's steps.
FlowTypes == {"start", "process"}
MainPool == {1}
SubPool == {1, 2}

SmallFlows(pool) ==
    UNION {{CodeFlow(StepsOf(idxs, t), ConnsOf(c)) :
               t \in [idxs -> FlowTypes],
               c \in UNION {[1..k -> ConnEnds(SubPool) \X ConnEnds(SubPool)] :
                               k \in 0..SubFlowConns}} :
           idxs \in {P \in SUBSET pool : Cardinality(P) <= SubFlowSteps}}

SubFlowLists ==
    UNION {[1..m -> SmallFlows(SubPool)] : m \in 0..MaxSubFlows}

\* The same analysis (main flow, sub-flows, data formats) converted twice by
\* one adapter.
InitRepeat ==
    /\ \E main \in SmallFlows(MainPool), subs \in SubFlowLists, data \in DataChoices :
         LET a == AnalysisResult(SummaryLen, main, subs, data)
         IN  pending = <<a, a>>
    /\ pc = "idle"
    /\ InitAdapter
    /\ item = NoItem
    /\ InitEngine
    /\ InitSerial
    /\ InitCode
    /\ InitSizing

\* A step with a fan of connections: s1 -> s2, then s2 -> each of 2..MaxFan
\* ends, every connection of s2 plain or an error path with a label.  In the
\* wide variant s1 carries a long name and s4 connects back to s1.
MaxFan == 3
LongName == 64
BranchEnds == {"s2", "s3", "s4", UnknownId}
ConnFlags == {<<None, FALSE>>, <<"no", TRUE>>}

BranchFlow(t1, t2, wide, ends, flags) ==
    CodeFlow(<<FlowStep("s1", t1, IF wide THEN LongName ELSE ShortName),
               FlowStep("s2", t2, ShortName),
               FlowStep("s3", "process", ShortName),
               FlowStep("s4", "error", ShortName)>>,
             <<FlowConnection("s1", "s2", "yes", FALSE)>>
             \o [i \in 1..Len(ends) |->
                    FlowConnection("s2", ends[i], flags[i][1], flags[i][2])]
             \o (IF wide THEN <<FlowConnection("s4", "s1", None, FALSE)>> ELSE <<>>))

InitBranch ==
    /\ \E k \in 2..MaxFan, t1 \in {"start", "process"}, t2 \in {"process", "custom"},
          wide \in BOOLEAN :
         \E ends \in [1..k -> BranchEnds], flags \in [1..k -> ConnFlags] :
           pending = <<AnalysisResult(SummaryLen,
                                      BranchFlow(t1, t2, wide, ends, flags),
                                      <<>>, <<>>)>>
    /\ pc = "idle"
    /\ InitAdapter
    /\ item = NoItem
    /\ InitEngine
    /\ InitSerial
    /\ InitCode
    /\ InitSizing

\* A tree of two levels: s1 -> s2 and s1 -> s3, then up to MaxBranch
\* connections from s2, each back to s1 or on to s4, and as many from s3,
\* each back to s1 or on to s5.  s3 may carry a long description.
MaxBranch == 2
LongDescription == 150
TreeTypes == {"process", "decision"}

TreeFlow(t1, t2, t3, described, ends2, ends3) ==
    CodeFlow(<<FlowStep("s1", t1, ShortName),
               FlowStep("s2", t2, ShortName),
               IF described THEN DescribedStep("s3", t3, ShortName, LongDescription)
               ELSE FlowStep("s3", t3, ShortName),
               FlowStep("s4", "process", ShortName),
               FlowStep("s5", "process", ShortName)>>,
             <<FlowConnection("s1", "s2", None, FALSE),
               FlowConnection("s1", "s3", None, FALSE)>>
             \o [i \in 1..Len(ends2) |-> FlowConnection("s2", ends2[i], None, FALSE)]
             \o [i \in 1..Len(ends3) |-> FlowConnection("s3", ends3[i], None, FALSE)])

InitTree ==
    /\ \E t1 \in FlowTypes, t2 \in TreeTypes, t3 \in TreeTypes, described \in BOOLEAN,
          k2 \in 1..MaxBranch, k3 \in 1..MaxBranch :
         \E ends2 \in [1..k2 -> {"s1", "s4"}], ends3 \in [1..k3 -> {"s1", "s5"}] :
            pending = <<AnalysisResult(SummaryLen,
                                       TreeFlow(t1, t2, t3, described, ends2, ends3),
                                       <<>>, <<>>)>>
    /\ pc = "idle"
    /\ InitAdapter
    /\ item = NoItem
    /\ InitEngine
    /\ InitSerial
    /\ InitCode
    /\ InitSizing

\* One adapter reused: an analysis converted by the new adapter, then an
\* analysis declaring every id of the pool, then the first analysis again.
ReuseFlows(pool) ==
    {flow \in SmallFlows(pool) :
        \A i \in 1..Len(flow.steps) : flow.steps[i].step_type = "process"}

ReuseSubFlowLists == UNION {[1..m -> ReuseFlows(SubPool)] : m \in 0..MaxSubFlows}

EveryId ==
    AnalysisResult(SummaryLen, CodeFlow(StepsOf({1}, [i \in {1} |-> "start"]), <<>>),
                   <<CodeFlow(StepsOf({2}, [i \in {2} |-> "start"]), <<>>)>>, <<>>)

InitReuse ==
    /\ \E main \in ReuseFlows(MainPool), subs \in ReuseSubFlowLists :
         LET a == AnalysisResult(SummaryLen, main, subs, <<>>)
         IN  pending = <<a, EveryId, a>>
    /\ pc = "idle"
    /\ InitAdapter
    /\ item = NoItem
    /\ InitEngine
    /\ InitSerial
    /\ InitCode
    /\ InitSizing

(***************************************************************************)
(* The item trees explored: built with node(), row(), column(), group(),   *)
(* nested to MaxDepth, each container with up to MaxChildren children.     *)
(***************************************************************************)
MaxChildren == 2
MaxDepth == 2
MaxCalls == 2

LeafSizes == {<<0, 0>>, <<100, 45>>}
Spacings == {10}
Paddings == {20, 0}
Origins == {<<0, 0>>, <<30, -20>>}

Leaves == {NodeItem(s[1], s[2]) : s \in LeafSizes}

RECURSIVE Items(_)
Items(depth) ==
    IF depth = 0 THEN Leaves
    ELSE LET below == Items(depth - 1)
             lists == UNION {[1..k -> below] : k \in 0..MaxChildren}
         IN  below
             \cup {Row(c, sp) : c \in lists, sp \in Spacings}
             \cup {Column(c, sp) : c \in lists, sp \in Spacings}
             \cup {Group("G", c, p) : c \in below, p \in Paddings}

\* an item of depth up to MaxDepth, or a group around one
InitLayout ==
    /\ \/ item \in Items(MaxDepth)
       \/ \E c \in Items(MaxDepth), p \in Paddings : item = Group("Outer", c, p)
    /\ pc = "engine"
    /\ pending = <<>>
    /\ InitAdapter
    /\ InitEngine
    /\ InitSerial
    /\ InitCode
    /\ InitSizing

(***************************************************************************)
(* The engine's operations, as a caller may use them on one item tree.     *)
(***************************************************************************)
EngineCalculateSize ==
    /\ pc = "engine"
    /\ size_out = <<>>
    /\ size_out' = CalculateSize(item)
    /\ UNCHANGED <<pc, item, layout_out>>

EngineCalculatePositions ==
    /\ pc = "engine"
    /\ Len(layout_out) < MaxCalls
    /\ \E o \in Origins :
         LET result == CalculatePositions(item, o[1], o[2], <<>>)
         IN  /\ item' = result.item
             /\ layout_out' = Append(layout_out,
                                     [origin |-> o,
                                      nodes |-> result.nodes,
                                      width |-> result.width,
                                      height |-> result.height])
    /\ UNCHANGED <<pc, size_out>>

(***************************************************************************)
(* to_dict, called on a Node of any type or on an Edge, with any of the    *)
(* optional attributes set.                                                *)
(***************************************************************************)
InitSerialize ==
    /\ \/ \E type \in NodeTypes, given \in SUBSET NodeOptionals :
            subject = [class |-> "Node", object |-> NodeObject(type, given)]
       \/ \E given \in SUBSET EdgeOptionals :
            subject = [class |-> "Edge", object |-> EdgeObject(given)]
    /\ dict_out = EmptyDict
    /\ pc = "serialize"
    /\ pending = <<>>
    /\ InitAdapter
    /\ item = NoItem
    /\ InitEngine
    /\ InitSizing
    /\ InitCode

ToDict ==
    /\ pc = "serialize"
    /\ dict_out = EmptyDict
    /\ dict_out' = IF subject.class = "Node" THEN NodeToDict(subject.object)
                   ELSE EdgeToDict(subject.object)
    /\ UNCHANGED <<pc, subject>>

(***************************************************************************)
(* calculate_text_dimensions, called on a text of up to MaxLines lines     *)
(* with any of the bounds below, max_width at, under and over twice the    *)
(* horizontal padding among them.                                          *)
(***************************************************************************)
MaxLines == 2

TextKinds == {"plain", "h1", "blank"}
LineLens == {0, 1, 57, 80}
MinWidths == {0, 40, 150}
MaxWidths == {40, 48, 150, 500}
MinHeights == {0, 50, 100}

\* a plain line has characters; a blank one holds len spaces
TextLines ==
    {Line(kind, len) : kind \in TextKinds, len \in LineLens} \ {Line("plain", 0)}
Texts == UNION {[1..k -> TextLines] : k \in 1..MaxLines}

InitText ==
    /\ \E text \in Texts, lo \in MinWidths, hi \in MaxWidths, h \in MinHeights :
         text_call = [text |-> text, min_width |-> lo, max_width |-> hi,
                      min_height |-> h]
    /\ text_out = <<>>
    /\ pc = "text"
    /\ pending = <<>>
    /\ InitAdapter
    /\ item = NoItem
    /\ InitEngine
    /\ InitSerial
    /\ InitCode

\* the call returns its (width, height), or raises
TextDimensions ==
    /\ pc = "text"
    /\ text_out = <<>>
    /\ text_out' =
          <<IF WrapDividesByZero(text_call.text, text_call.max_width)
            THEN [raised |-> "ZeroDivisionError", value |-> <<>>]
            ELSE [raised |-> None,
                  value |-> CalculateTextDimensions(text_call.text,
                                                    text_call.min_width,
                                                    text_call.max_width,
                                                    text_call.min_height)]>>
    /\ UNCHANGED <<pc, text_call>>

(***************************************************************************)
(* processor/models.py and processor/adapter.py: CodeToCanvasAdapter.      *)
(* A name is the sequence of its characters; an absent call target is the  *)
(* empty one.                                                              *)
(***************************************************************************)
CodeElement(name, element_type, calls, children) ==
    [name |-> name, element_type |-> element_type, calls |-> calls,
     children |-> children]

FunctionCall(name, target) == [name |-> name, target |-> target]

\* a < b as Python orders strings: by the code points of their characters
RECURSIVE NameLess(_, _)
NameLess(a, b) ==
    LET Ord(c) ==
            CASE c = "." -> 46 [] c = "C" -> 67 [] c = "_" -> 95 [] c = "f" -> 102
              [] c = "g" -> 103 [] c = "i" -> 105 [] c = "n" -> 110
              [] c = "p" -> 112 [] c = "t" -> 116
    IN  IF b = <<>> THEN FALSE
        ELSE IF a = <<>> THEN TRUE
        ELSE IF Head(a) # Head(b) THEN Ord(Head(a)) < Ord(Head(b))
        ELSE NameLess(Tail(a), Tail(b))

\* str.replace for a single character
RECURSIVE ReplaceChar(_, _, _)
ReplaceChar(s, old, new) ==
    IF s = <<>> THEN <<>>
    ELSE (IF Head(s) = old THEN new ELSE <<Head(s)>>) \o ReplaceChar(Tail(s), old, new)

\* name.split(".")[-1]
RECURSIVE LastSegment(_)
LastSegment(name) ==
    IF name = <<>> \/ name[Len(name)] = "." THEN <<>>
    ELSE Append(LastSegment(SubSeq(name, 1, Len(name) - 1)), name[Len(name)])

\* a dict in insertion order, as a sequence of entries
OrderedGet(d, k) == d[CHOOSE i \in 1..Len(d) : d[i].key = k].value

\* d[key] = value for each entry in turn: a new key goes last, a known key
\* keeps its place
RECURSIVE OrderedPutAll(_, _)
OrderedPutAll(d, entries) ==
    IF entries = <<>> THEN d
    ELSE LET e == entries[1]
             put == IF \E i \in 1..Len(d) : d[i].key = e.key
                    THEN [i \in 1..Len(d) |-> IF d[i].key = e.key THEN e ELSE d[i]]
                    ELSE Append(d, e)
         IN  OrderedPutAll(put, Tail(entries))

\* CodeElement.get_qualified_name; ancestors run from the root to the parent
RECURSIVE GetQualifiedName(_, _)
GetQualifiedName(element, ancestors) ==
    IF ancestors # <<>> /\ ancestors[Len(ancestors)].element_type # "module"
    THEN GetQualifiedName(ancestors[Len(ancestors)],
                          SubSeq(ancestors, 1, Len(ancestors) - 1))
         \o <<".">> \o element.name
    ELSE element.name

\* CodeGraph._build_call_graph: the entries in the order they are written
RECURSIVE CallGraphEntries(_, _)
CallGraphEntries(element, ancestors) ==
    LET call_name(call) ==
            IF call.target # <<>> THEN call.target \o <<".">> \o call.name
            ELSE call.name
    IN  (IF element.calls # <<>>
         THEN <<[key |-> GetQualifiedName(element, ancestors),
                 value |-> [i \in 1..Len(element.calls) |->
                               call_name(element.calls[i])]]>>
         ELSE <<>>)
        \o Flatten([i \in 1..Len(element.children) |->
                       CallGraphEntries(element.children[i],
                                        Append(ancestors, element))])

\* CodeToCanvasAdapter.__init__
code_node_width == 280
code_node_height == 80
group_padding == 25
method_spacing == 20
max_functions_in_row == 3
max_variables == 5

COLORS(element_type) ==
    CASE element_type = "module" -> "2"
      [] element_type = "class" -> "6"
      [] element_type \in {"function", "method"} -> "5"
      [] element_type = "variable" -> "4"
      [] OTHER -> None

IdLength == 16

\* _generate_node_id
GenerateNodeId(qualified_name) ==
    LET clean_name ==
            ReplaceChar(ReplaceChar(ReplaceChar(qualified_name, ".", <<"_">>),
                                    "<", <<>>), ">", <<>>)
        cut == SubSeq(clean_name, 1, Min(Len(clean_name), IdLength))
    IN  IF cut = <<>> THEN <<"n", "o", "d", "e">> ELSE cut

\* What building a layout leaves is the item, the leaves in the order
\* _create_node_item made them, and the group frames (a label is the icon,
\* written as the word for it, a space and the name).
\* _create_node_item: an element of one text line
CreateNodeItem(element, ancestors, path) ==
    LET qualified_name == GetQualifiedName(element, ancestors)
        line_count == 1
    IN  [item |-> NodeItem(code_node_width,
                           Max(code_node_height, line_count * 20 + 20)),
         leaves |-> <<[path |-> path, qualified_name |-> qualified_name,
                       node_id |-> GenerateNodeId(qualified_name),
                       color |-> COLORS(element.element_type)]>>,
         frames |-> <<>>]

\* methods.sort(key=method_sort_key): stable, the keys compared as tuples
RECURSIVE SortMethods(_)
SortMethods(methods) ==
    LET rank(m) ==
            IF m.name = <<"_", "_", "i", "n", "i", "t", "_", "_">> THEN 0
            ELSE IF m.name # <<>> /\ Head(m.name) = "_" THEN 2
            ELSE 1
        key_less(m1, m2) ==
            \/ rank(m1) < rank(m2)
            \/ rank(m1) = rank(m2) /\ NameLess(m1.name, m2.name)
    IN  IF methods = <<>> THEN <<>>
        ELSE LET n == Len(methods)
                 m == methods[n]
                 before == SortMethods(SubSeq(methods, 1, n - 1))
                 k == Cardinality({i \in 1..(n - 1) : ~key_less(m, before[i])})
             IN  SubSeq(before, 1, k) \o <<m>> \o SubSeq(before, k + 1, n - 1)

\* the node items of a list of elements, the j-th under path + <<j>>
NodeItems(elements, ancestors, path) ==
    [j \in 1..Len(elements) |-> CreateNodeItem(elements[j], ancestors, Append(path, j))]

\* one field of each built layout, in order
Gather(builts, field) == [j \in 1..Len(builts) |-> builts[j][field]]

\* _create_class_layout
CreateClassLayout(cls, ancestors, path) ==
    LET methods ==
            SortMethods(SelectSeq(cls.children,
                LAMBDA c : c.element_type \in {"function", "method"}))
        method_items == NodeItems(methods, Append(ancestors, cls), Append(path, 1))
    IN  IF methods = <<>>
        THEN CreateNodeItem(cls, ancestors, path)
        ELSE [item |-> Group(None, Column(Gather(method_items, "item"),
                                          method_spacing),
                             group_padding),
              leaves |-> Flatten(Gather(method_items, "leaves")),
              frames |-> <<[path |-> path, color |-> COLORS("class"),
                            label |-> <<"class", " ">> \o cls.name]>>]

\* _create_module_layout
CreateModuleLayout(module, path) ==
    LET classes == SelectSeq(module.children, LAMBDA c : c.element_type = "class")
        functions == SelectSeq(module.children,
                         LAMBDA c : c.element_type \in {"function", "method"})
        variables == SelectSeq(module.children,
                         LAMBDA c : c.element_type = "variable")
        content == Append(path, 1)
        class_items ==
            [k \in 1..Len(classes) |->
                CreateClassLayout(classes[k], <<module>>, Append(content, k))]
        func_at == Len(classes) + 1
        func_items == NodeItems(functions, <<module>>, Append(content, func_at))
        func_rows ==
            IF functions = <<>> THEN <<>>
            ELSE <<[item |-> IF Len(functions) > max_functions_in_row
                             THEN Column(Gather(func_items, "item"), default_spacing)
                             ELSE Row(Gather(func_items, "item"), default_spacing),
                    leaves |-> Flatten(Gather(func_items, "leaves")),
                    frames |-> <<>>]>>
        var_at == Len(classes) + Len(func_rows) + 1
        var_items == NodeItems(variables, <<module>>, Append(content, var_at))
        var_rows ==
            IF variables # <<>> /\ Len(variables) <= max_variables
            THEN <<[item |-> Row(Gather(var_items, "item"), default_spacing),
                    leaves |-> Flatten(Gather(var_items, "leaves")),
                    frames |-> <<>>]>>
            ELSE <<>>
        children_items == class_items \o func_rows \o var_rows
    IN  IF children_items = <<>>
        THEN CreateNodeItem(module, <<>>, path)
        ELSE [item |-> Group(None, Column(Gather(children_items, "item"),
                                          default_spacing),
                             group_padding),
              leaves |-> Flatten(Gather(children_items, "leaves")),
              frames |-> <<[path |-> path, color |-> COLORS("module"),
                            label |-> <<"module", " ">> \o module.name]>>
                         \o Flatten(Gather(children_items, "frames"))]

\* _create_layout_item at depth 0
CreateLayoutItem(element) ==
    IF element.element_type = "module" THEN CreateModuleLayout(element, <<>>)
    ELSE IF element.element_type = "class" THEN CreateClassLayout(element, <<>>, <<>>)
    ELSE CreateNodeItem(element, <<>>, <<>>)

\* the nodes calculate_positions returned, each the object the layout item
\* was made with: a leaf carries its node_id, a frame a generated id
CanvasNodes(placed, built, generated) ==
    [i \in 1..Len(placed) |->
        IF placed[i].type = "text"
        THEN LET leaf == built.leaves[CHOOSE j \in 1..Len(built.leaves) :
                                         built.leaves[j].path = placed[i].id]
             IN  [placed[i] EXCEPT !.id = leaf.node_id, !.color = leaf.color]
        ELSE LET f == CHOOSE j \in 1..Len(built.frames) :
                         built.frames[j].path = placed[i].id
             IN  [placed[i] EXCEPT !.id = generated[f],
                                   !.color = built.frames[f].color,
                                   !.label = built.frames[f].label]]

\* _add_call_edges: the callee's id, <<>> when none is found
CalleeId(node_map, callee_name) ==
    IF \E i \in 1..Len(node_map) : node_map[i].key = callee_name
    THEN OrderedGet(node_map, callee_name)
    ELSE LET simple_name == LastSegment(callee_name)
             suffix == <<".">> \o simple_name
             ends_with(s) ==
                 /\ Len(suffix) <= Len(s)
                 /\ SubSeq(s, Len(s) - Len(suffix) + 1, Len(s)) = suffix
             hits == {i \in 1..Len(node_map) :
                         \/ ends_with(node_map[i].key)
                         \/ node_map[i].key = simple_name}
         IN  IF hits = {} THEN <<>>
             ELSE node_map[CHOOSE i \in hits : \A j \in hits : i <= j].value

\* _add_call_edges
AddCallEdges(node_map, call_graph) ==
    LET edges_of(caller_name, callees) ==
            IF \A i \in 1..Len(node_map) : node_map[i].key # caller_name THEN <<>>
            ELSE LET caller_id == OrderedGet(node_map, caller_name)
                 IN  Flatten([i \in 1..Len(callees) |->
                         LET callee_id == CalleeId(node_map, callees[i])
                         IN  IF callee_id # <<>> /\ caller_id # callee_id
                             THEN <<EdgeCreate(caller_id, callee_id, "right",
                                               "left", None, None)>>
                             ELSE <<>>])
    IN  Flatten([i \in 1..Len(call_graph) |->
                    edges_of(call_graph[i].key, call_graph[i].value)])

(***************************************************************************)
(* CodeToCanvasAdapter.convert, called on a module of up to MaxFunctions   *)
(* functions and at most one class of up to MaxMethods methods.  The names *)
(* are short, exactly IdLength characters long, or one longer.  A          *)
(* function f calls C.f, a function g calls g and the longest g, a method  *)
(* f calls self.g.                                                         *)
(***************************************************************************)
MaxFunctions == 2
MaxMethods == 2

\* the modules convert is called on
Modules ==
    LET long(n, c) == [i \in 1..n |-> "p"] \o <<c>>
        function_names ==
            {<<"f">>, <<"g">>, <<"C", "_", "f">>,
             long(IdLength - 1, "f"), long(IdLength - 1, "g"),
             long(IdLength, "f"), long(IdLength, "g")}
        method_names ==
            {<<"f">>, <<"g">>, <<"_", "g">>,
             <<"_", "_", "i", "n", "i", "t", "_", "_">>}
        function_calls(name) ==
            IF name = <<"f">> THEN <<FunctionCall(<<"f">>, <<"C">>)>>
            ELSE IF name = <<"g">>
            THEN <<FunctionCall(<<"g">>, <<>>),
                   FunctionCall(long(IdLength, "g"), <<>>)>>
            ELSE <<>>
        functions ==
            {CodeElement(name, "function", function_calls(name), <<>>) :
                name \in function_names}
        methods ==
            {CodeElement(name, "method",
                         IF name = <<"f">>
                         THEN <<FunctionCall(<<"g">>, <<"s", "e", "l", "f">>)>>
                         ELSE <<>>,
                         <<>>) : name \in method_names}
        classes ==
            {CodeElement(<<"C">>, "class", <<>>, ms) :
                ms \in UNION {[1..k -> methods] : k \in 0..MaxMethods}}
    IN  {CodeElement(<<"m">>, "module", <<>>, fs \o cs) :
            fs \in UNION {[1..k -> functions] : k \in 0..MaxFunctions},
            cs \in {<<>>} \cup {<<c>> : c \in classes}}

InitConvertCode ==
    /\ code_root \in Modules
    /\ code_out = <<>>
    /\ pc = "code"
    /\ pending = <<>>
    /\ InitAdapter
    /\ item = NoItem
    /\ InitEngine
    /\ InitSerial
    /\ InitSizing

\* convert(root): the canvas it returns and the _node_map it leaves.  Each
\* intermediate value is bound once; a group's id is uuid4().hex[:16], any
\* IdLength hexadecimal digits.
CodeConvert ==
    /\ pc = "code"
    /\ code_out = <<>>
    /\ \E built \in {CreateLayoutItem(code_root)},
          call_graph \in {OrderedPutAll(<<>>, CallGraphEntries(code_root, <<>>))} :
         \E node_map \in
                {OrderedPutAll(<<>>, [i \in 1..Len(built.leaves) |->
                                        [key |-> built.leaves[i].qualified_name,
                                         value |-> built.leaves[i].node_id]])},
            result \in {CalculatePositions(built.item, 0, 0, <<>>)},
            generated \in [1..Len(built.frames) ->
                              {[i \in 1..IdLength |-> "0"], [i \in 1..IdLength |-> "e"]}] :
           code_out' = <<[nodes |-> CanvasNodes(result.nodes, built, generated),
                          edges |-> AddCallEdges(node_map, call_graph),
                          node_map |-> node_map]>>
    /\ UNCHANGED <<pc, code_root>>

Init ==
    \/ InitGraph \/ InitRepeat \/ InitReuse \/ InitBranch \/ InitTree
    \/ InitLayout \/ InitSerialize \/ InitText \/ InitConvertCode

AdapterNext ==
    \/ Convert
    \/ ProcessFlow
    \/ NextRoot
    \/ Dequeue
    \/ PlaceUnreached
    \/ EmitFlow
    \/ Return

EngineNext ==
    \/ EngineCalculateSize
    \/ EngineCalculatePositions

Next ==
    \/ AdapterNext /\ UNCHANGED <<engine, serial, sizing, code>>
    \/ EngineNext /\ UNCHANGED <<adapter, serial, sizing, code>>
    \/ ToDict /\ UNCHANGED <<adapter, engine, sizing, code>>
    \/ TextDimensions /\ UNCHANGED <<adapter, engine, serial, code>>
    \/ CodeConvert /\ UNCHANGED <<adapter, engine, serial, sizing>>

Spec == Init /\ [][Next]_vars

\* convert runs to its end without waiting for anything: a call that can take a
\* step takes it.
ConvertStep == AdapterNext /\ UNCHANGED <<engine, serial, sizing, code>>

\* the steps of _calculate_positions
Traverse ==
    (NextRoot \/ Dequeue \/ PlaceUnreached) /\ UNCHANGED <<engine, serial, sizing, code>>

FairSpec ==
    (InitGraph \/ InitRepeat \/ InitBranch) /\ [][ConvertStep]_vars /\ WF_vars(Traverse)

(***************************************************************************)
(* Properties of the flow layout.                                          *)
(***************************************************************************)
\* the flow whose result is flow_out[k + 1]
FlowAt(k) == IF k = 0 THEN analysis.main_flow ELSE analysis.sub_flows[k]

\* the declared steps the connections of step_id lead to, a 2-tuple or <<>>
TwoSuccessors(flow, step_id) ==
    LET nexts == NextSteps(flow, step_id)
    IN  IF Len(nexts) = 2 THEN nexts ELSE <<>>

\* C1: for a flow with at least one step, _calculate_positions returns a
\* position for every declared step and for no other id, and _process_flow
\* emits exactly one node per declared step, in declaration order.
C1_EveryStepPositionedOnce ==
    /\ pc = "emit" => DOMAIN positions = StepIdsOf(CurFlow)
    /\ \A k \in 1..Len(flow_out) :
         LET steps == FlowAt(k - 1).steps
             nodes == flow_out[k].nodes
         IN  steps # <<>> =>
                /\ Len(nodes) = Len(steps)
                /\ \A i \in 1..Len(steps) : nodes[i].id = StepNodeId(steps[i].id)

\* C1 at work: positions returned for a flow in which the traversal met an id
\* no step has and left a declared step unreached.
C1_Witness ==
    /\ pc = "emit"
    /\ UnknownId \in visited
    /\ \E i \in 1..Len(CurFlow.steps) : CurFlow.steps[i].id \notin visited
    /\ Len(CurFlow.steps) >= 3

\* C2: the traversal of _calculate_positions terminates on every finite
\* graph: once started it reaches the return of the positions, and every
\* start step's queue runs empty.
C2_TraversalTerminates ==
    /\ (pc = "bfs") ~> (pc = "emit")
    /\ (pc = "bfs" /\ queue # <<>>) ~> (queue = <<>>)

\* C2 at work: positions returned for a flow with a cycle of two steps, both
\* visited.
C2_Witness ==
    /\ pc = "emit"
    /\ \E i, j \in 1..Len(CurFlow.connections) :
         LET a == CurFlow.connections[i]
             b == CurFlow.connections[j]
         IN  /\ a.from_step = b.to_step
             /\ a.to_step = b.from_step
             /\ a.from_step # a.to_step
             /\ {a.from_step, a.to_step} \subseteq DOMAIN placed_via

\* C3 as stated: whenever a declared step has exactly two outgoing
\* connections, to two different declared steps other than itself, the final
\* position of the declared-second successor is strictly right of the
\* declared-first successor's and at the same or a greater y.
C3_SecondSuccessorRight ==
    pc = "emit" =>
        \A i \in 1..Len(CurFlow.steps) :
            LET nexts == TwoSuccessors(CurFlow, CurFlow.steps[i].id)
            IN  (/\ nexts # <<>>
                 /\ nexts[1] # nexts[2]
                 /\ CurFlow.steps[i].id \notin {nexts[1], nexts[2]}
                 /\ {nexts[1], nexts[2]} \subseteq DOMAIN positions)
                => /\ positions[nexts[2]][1] > positions[nexts[1]][1]
                   /\ positions[nexts[2]][2] >= positions[nexts[1]][2]

\* C3 amended: whenever a declared step has exactly two outgoing connections
\* and both successors take their positions from the queue entries that step
\* appended for them, the declared-second successor is right of the
\* declared-first by the step's width plus h_spacing, at the same y.
C3_SecondSuccessorRightWhenPlacedFromStep ==
    \A i \in 1..Len(CurFlow.steps) :
        LET step == CurFlow.steps[i]
            nexts == TwoSuccessors(CurFlow, step.id)
        IN  (/\ pc \in {"bfs", "emit"}
             /\ nexts # <<>>
             /\ {nexts[1], nexts[2]} \subseteq DOMAIN placed_via
             /\ placed_via[nexts[1]] = <<step.id, 0>>
             /\ placed_via[nexts[2]] = <<step.id, 1>>)
            => /\ positions[nexts[2]][1] = positions[nexts[1]][1]
                      + STEP_BASE_WIDTHS(step.step_type, node_width) + h_spacing
               /\ positions[nexts[2]][1] > positions[nexts[1]][1]
               /\ positions[nexts[2]][2] = positions[nexts[1]][2]

\* C3 at work: positions returned where both successors of a step with two
\* connections were placed from that step's entries.
C3_Witness ==
    /\ pc = "emit"
    /\ \E i \in 1..Len(CurFlow.steps) :
         LET step == CurFlow.steps[i]
             nexts == TwoSuccessors(CurFlow, step.id)
         IN  /\ nexts # <<>>
             /\ {nexts[1], nexts[2]} \subseteq DOMAIN placed_via
             /\ placed_via[nexts[1]] = <<step.id, 0>>
             /\ placed_via[nexts[2]] = <<step.id, 1>>

\* C4 as stated: for every flow convert processes, the edges _process_flow
\* emits are exactly those of the connections whose from_step and to_step are
\* both ids of steps declared in that same flow, in declaration order; every
\* other connection yields no edge.
C4_EdgeIffBothEndsInFlow ==
    \A k \in 1..Len(flow_out) :
        LET flow == FlowAt(k - 1)
            inside(conn) == /\ conn.from_step \in StepIdsOf(flow)
                            /\ conn.to_step \in StepIdsOf(flow)
            kept == SelectSeq(flow.connections, inside)
            edges == flow_out[k].edges
        IN  /\ Len(edges) = Len(kept)
            /\ \A i \in 1..Len(kept) :
                 /\ edges[i].from_node = StepNodeId(kept[i].from_step)
                 /\ edges[i].to_node = StepNodeId(kept[i].to_step)

(***************************************************************************)
(* Properties of the container layout engine.                              *)
(***************************************************************************)
RECURSIVE LeafCount(_)
LeafCount(it) ==
    IF it.layout_type = "node" THEN 1
    ELSE SeqSum([i \in 1..Len(it.children) |-> LeafCount(it.children[i])])

RECURSIVE GroupCount(_)
GroupCount(it) ==
    (IF it.layout_type = "group" THEN 1 ELSE 0)
    + SeqSum([i \in 1..Len(it.children) |-> GroupCount(it.children[i])])

IsProperPrefix(p, q) == Len(p) < Len(q) /\ SubSeq(q, 1, Len(p)) = p

AllLeaves(it) == \A i \in 1..Len(it.children) : it.children[i].layout_type = "node"

Coordinates(nodes) ==
    [i \in 1..Len(nodes) |-> <<nodes[i].x, nodes[i].y, nodes[i].width, nodes[i].height>>]

\* C5 as stated: calculate_positions on a group whose content holds C leaf
\* items returns exactly 1 + C nodes, whatever the shape of the content.
C5_GroupReturnsFramePlusLeaves ==
    \A c \in 1..Len(layout_out) :
        item.layout_type = "group" =>
            Len(layout_out[c].nodes) = 1 + LeafCount(item.children[1])

\* C5 amended: calculate_positions on a group whose content holds C leaf
\* items and G groups returns exactly 1 + C + G nodes: one frame for the
\* group, one per group inside it, one node per leaf.
C5_GroupReturnsFramesPlusLeaves ==
    \A c \in 1..Len(layout_out) :
        item.layout_type = "group" =>
            Len(layout_out[c].nodes) =
                1 + LeafCount(item.children[1]) + GroupCount(item.children[1])

\* C5 at work: a group positioned whose content holds a group and two leaves.
C5_Witness ==
    /\ layout_out # <<>>
    /\ item.layout_type = "group"
    /\ GroupCount(item.children[1]) >= 1
    /\ LeafCount(item.children[1]) >= 2

\* C6: in the list calculate_positions returns, a group's frame comes before
\* every node emitted for that group's content, and the first node returned
\* for a group item is its own frame, of type group, carrying its label.
C6_FrameBeforeContent ==
    \A c \in 1..Len(layout_out) :
        LET nodes == layout_out[c].nodes
        IN  /\ \A i, j \in 1..Len(nodes) :
                 (nodes[i].type = "group" /\ IsProperPrefix(nodes[i].id, nodes[j].id))
                 => i < j
            /\ item.layout_type = "group" =>
                 /\ nodes # <<>>
                 /\ nodes[1].id = <<>>
                 /\ nodes[1].type = "group"
                 /\ nodes[1].label = item.label

\* C6 at work: a group positioned that holds a container with a leaf followed
\* by a group.
C6_Witness ==
    /\ layout_out # <<>>
    /\ item.layout_type = "group"
    /\ LET content == item.children[1]
       IN  /\ content.layout_type \in {"row", "column"}
           /\ Len(content.children) = 2
           /\ content.children[1].layout_type = "node"
           /\ content.children[2].layout_type = "group"

\* C7 as stated: for a row of leaf items of any widths and heights, all
\* returned nodes share the identical y.
C7_RowLeavesShareY ==
    \A c \in 1..Len(layout_out) :
        LET nodes == layout_out[c].nodes
        IN  (item.layout_type = "row" /\ AllLeaves(item)) =>
                \A i, j \in 1..Len(nodes) : nodes[i].y = nodes[j].y

\* C7 amended: for a row of leaf items, the node of a leaf of height h is at
\* y = Y + floor((H - h) / 2), Y the row's origin y and H the largest leaf
\* height; the nodes share the identical y when the leaves have equal heights.
C7_RowLeavesCentred ==
    \A c \in 1..Len(layout_out) :
        LET nodes == layout_out[c].nodes
            kids == item.children
            H == SeqMax([i \in 1..Len(kids) |-> kids[i].height])
        IN  (item.layout_type = "row" /\ AllLeaves(item)) =>
                /\ Len(nodes) = Len(kids)
                /\ \A i \in 1..Len(kids) :
                     nodes[i].y = layout_out[c].origin[2] + ((H - kids[i].height) \div 2)
                /\ (\A i, j \in 1..Len(kids) : kids[i].height = kids[j].height)
                   => \A i, j \in 1..Len(nodes) : nodes[i].y = nodes[j].y

\* C7 at work: a row of two leaves of different heights positioned.
C7_Witness ==
    /\ layout_out # <<>>
    /\ item.layout_type = "row"
    /\ AllLeaves(item)
    /\ Len(item.children) = 2
    /\ item.children[1].height # item.children[2].height

\* the y a column at start_y hands its child i: start_y plus, for each child
\* before it, that child's height and the spacing
ColumnChildY(column, start_y, i) ==
    start_y + SeqSum([j \in 1..(i - 1) |->
                         CalculateSize(column.children[j])[2] + column.spacing])

\* C8: a column positions every child with origin x equal to the column's
\* origin x, and child i with origin y equal to the column's origin y plus the
\* sum over the preceding children of (child height + spacing): the returned
\* nodes are the children's nodes, each child laid out from that origin, and a
\* child's own node (a leaf's, a group's frame) stands at that origin.
C8_ColumnChildOrigins ==
    \A c \in 1..Len(layout_out) :
        LET call == layout_out[c]
            kids == item.children
            laid(i) == CalculatePositions(kids[i], call.origin[1],
                                          ColumnChildY(item, call.origin[2], i),
                                          <<i>>).nodes
        IN  item.layout_type = "column" =>
                /\ call.nodes = Flatten([i \in 1..Len(kids) |-> laid(i)])
                /\ \A k \in 1..Len(call.nodes) :
                     Len(call.nodes[k].id) = 1 =>
                        /\ call.nodes[k].x = call.origin[1]
                        /\ call.nodes[k].y =
                              ColumnChildY(item, call.origin[2], call.nodes[k].id[1])

\* C8 at work: a column positioned away from (0, 0) whose second child is a
\* group.
C8_Witness ==
    /\ layout_out # <<>>
    /\ layout_out[1].origin # <<0, 0>>
    /\ item.layout_type = "column"
    /\ Len(item.children) = 2
    /\ item.children[2].layout_type = "group"

\* the size of an item by the closed formulas
RECURSIVE ReferenceSize(_)
ReferenceSize(it) ==
    LET n == Len(it.children)
        w == [i \in 1..n |-> ReferenceSize(it.children[i])[1]]
        h == [i \in 1..n |-> ReferenceSize(it.children[i])[2]]
    IN  CASE it.layout_type = "node" -> <<it.width, it.height>>
          [] it.layout_type = "row" ->
                IF n = 0 THEN <<0, 0>>
                ELSE <<SeqSum(w) + (n - 1) * it.spacing, SeqMax(h)>>
          [] it.layout_type = "column" ->
                IF n = 0 THEN <<0, 0>>
                ELSE <<SeqMax(w), SeqSum(h) + (n - 1) * it.spacing>>
          [] it.layout_type = "group" ->
                <<w[1] + 2 * it.padding, h[1] + 2 * it.padding + 30>>

\* C9: calculate_size equals the reference size: a leaf gives (width,
\* height); a row of N >= 1 children (sum of widths + (N - 1) * spacing, max
\* height); a column (max width, sum of heights + (N - 1) * spacing); a group
\* (content width + 2 * padding, content height + 2 * padding + 30); an empty
\* row or column (0, 0).
C9_SizeMatchesReference ==
    size_out # <<>> => size_out = ReferenceSize(item)

\* C9 at work: the size taken of a group around a row of two children.
C9_Witness ==
    /\ size_out # <<>>
    /\ item.layout_type = "group"
    /\ item.children[1].layout_type = "row"
    /\ Len(item.children[1].children) = 2

\* C10: two calculate_positions calls on the same item tree with the same
\* origin, and two convert calls on the same input, yield the same sequence of
\* node coordinates (x, y, width, height) in the same order.
C10_SameInputSameCoordinates ==
    /\ \A a, b \in 1..Len(layout_out) :
         layout_out[a].origin = layout_out[b].origin =>
            Coordinates(layout_out[a].nodes) = Coordinates(layout_out[b].nodes)
    /\ \A a, b \in 1..Len(returned) :
         returned[a].input = returned[b].input =>
            Coordinates(returned[a].canvas.nodes) = Coordinates(returned[b].canvas.nodes)

\* C10 at work: the second of two calls with one origin, not (0, 0), on a tree
\* with leaves; or the second conversion of one analysis with a sub-flow.
C10_Witness ==
    \/ /\ Len(layout_out) = 2
       /\ layout_out[1].origin = layout_out[2].origin
       /\ layout_out[1].origin # <<0, 0>>
       /\ LeafCount(item) >= 2
    \/ /\ Len(returned) = 2
       /\ returned[1].input = returned[2].input
       /\ returned[2].input.sub_flows # <<>>

(***************************************************************************)
(* Properties of the flow layout, continued.                               *)
(***************************************************************************)
\* the flow is start -> a, a -> b, a -> c and nothing else, a of category
\* process, the four steps different
BranchScenario(flow, a, b, c) ==
    /\ Len(flow.connections) = 3
    /\ LET start == flow.connections[1].from_step
           k == FindStep(flow, start)
       IN  /\ k # 0
           /\ flow.steps[k].step_type = "start"
           /\ Cardinality({start, a, b, c}) = 4
    /\ flow.connections[1].to_step = a
    /\ flow.connections[2].from_step = a /\ flow.connections[2].to_step = b
    /\ flow.connections[3].from_step = a /\ flow.connections[3].to_step = c
    /\ {a, b, c} \subseteq StepIdsOf(flow)
    /\ flow.steps[FindStep(flow, a)].step_type = "process"

\* C11: in the flow start -> A, A -> B (declared first), A -> C (declared
\* second) with A of category process, B is positioned at
\* (A.x, A.y + 80 + v_spacing) and C at the same y as B with
\* x = A.x + 280 + h_spacing.
C11_BranchScenarioPositions ==
    pc = "emit" =>
        \A a, b, c \in DOMAIN positions :
            BranchScenario(CurFlow, a, b, c) =>
                /\ positions[b] = <<positions[a][1], positions[a][2] + 80 + v_spacing>>
                /\ positions[c] = <<positions[a][1] + 280 + h_spacing, positions[b][2]>>

\* C11 at work: the positions returned for the scenario's flow.
C11_Witness ==
    /\ pc = "emit"
    /\ \E a, b, c \in DOMAIN positions : BranchScenario(CurFlow, a, b, c)

(***************************************************************************)
(* Properties of the serialization.                                        *)
(***************************************************************************)
\* the payload key of each attribute, under the node type it belongs to
PayloadKeys(type) ==
    CASE type = "text" -> {<<"text", "text">>}
      [] type = "file" -> {<<"file", "file">>, <<"subpath", "subpath">>}
      [] type = "link" -> {<<"url", "url">>}
      [] type = "group" -> {<<"label", "label">>, <<"background", "background">>,
                            <<"background_style", "backgroundStyle">>}

EdgeKeys ==
    {<<"from_side", "fromSide">>, <<"to_side", "toSide">>, <<"from_end", "fromEnd">>,
     <<"to_end", "toEnd">>, <<"color", "color">>, <<"label", "label">>}

\* the dictionary has exactly the always keys and, of the optional
\* (attribute, key) pairs, the keys whose attribute is set, each with the
\* attribute's value
HasExactly(dict, object, always, optional) ==
    /\ DOMAIN dict = {p[2] : p \in always}
                     \cup {p[2] : p \in {q \in optional : object[q[1]] # None}}
    /\ \A p \in always : dict[p[2]] = object[p[1]]
    /\ \A p \in optional : object[p[1]] # None => dict[p[2]] = object[p[1]]

\* C12: Node.to_dict and Edge.to_dict never emit a key whose value is unset.
\* A node's dictionary has id, type, x, y, width, height, has color iff color
\* is set, and has a payload key only when the key belongs to the node's own
\* type and is set; an edge's dictionary has id, fromNode, toNode and has
\* fromSide, toSide, fromEnd, toEnd, color, label each iff set.
C12_ToDictOmitsUnset ==
    dict_out # EmptyDict =>
        LET object == subject.object
        IN  IF subject.class = "Node"
            THEN HasExactly(dict_out, object,
                            {<<"id", "id">>, <<"type", "type">>, <<"x", "x">>,
                             <<"y", "y">>, <<"width", "width">>,
                             <<"height", "height">>},
                            {<<"color", "color">>} \cup PayloadKeys(object.type))
            ELSE HasExactly(dict_out, object,
                            {<<"id", "id">>, <<"from_node", "fromNode">>,
                             <<"to_node", "toNode">>},
                            EdgeKeys)

\* C12 at work: the dictionary of a text node without text on which a label
\* and a url are set.
C12_Witness ==
    /\ dict_out # EmptyDict
    /\ subject.class = "Node"
    /\ subject.object.type = "text"
    /\ subject.object.text = None
    /\ subject.object.label # None
    /\ subject.object.url # None

(***************************************************************************)
(* Properties of the adapter across conversions.                           *)
(***************************************************************************)
\* the step ids an analysis declares, in all its flows
AllStepIds(a) ==
    StepIdsOf(a.main_flow)
    \cup UNION {StepIdsOf(a.sub_flows[i]) : i \in 1..Len(a.sub_flows)}

\* C13: for any sequence of convert calls on one adapter, the canvas each
\* call returns (node ids, coordinates, each edge's endpoints, sides, color
\* and label) equals the canvas the newly constructed adapter returned for
\* the same input, and after a call the step-id maps hold only entries for
\* steps of that call's input.
C13_ScratchStateReset ==
    /\ \A k \in 1..Len(returned) :
         returned[k].input = returned[1].input =>
            returned[k].canvas = returned[1].canvas
    /\ (pc = "idle" /\ returned # <<>>) =>
         /\ DOMAIN step_node_ids \subseteq AllStepIds(analysis)
         /\ DOMAIN node_positions \subseteq AllStepIds(analysis)

\* C13 at work: the third call returned, on the input of the first, after a
\* second call that declared a step id the input names in a connection but
\* does not declare.
C13_Witness ==
    /\ pc = "idle"
    /\ Len(returned) = 3
    /\ returned[3].input = returned[1].input
    /\ returned[2].input # returned[1].input
    /\ \E i \in 1..Len(analysis.main_flow.connections) :
         LET conn == analysis.main_flow.connections[i]
         IN  /\ conn.from_step \in StepIdsOf(analysis.main_flow)
             /\ conn.to_step \in AllStepIds(returned[2].input) \ AllStepIds(analysis)

(***************************************************************************)
(* Properties of the traversal's roots.                                    *)
(***************************************************************************)
\* the indices of the steps the traversal starts from
RootIndices(flow) ==
    LET starts == {i \in 1..Len(flow.steps) : flow.steps[i].step_type = "start"}
    IN  IF starts = {} THEN {1} ELSE starts

\* 0-based rank of index i among the root indices
RootRank(flow, i) == Cardinality({j \in RootIndices(flow) : j < i})

\* C14: the roots of a flow are exactly its steps of category start, taken
\* in declaration order, or the first declared step alone if no step has
\* that category; a flow with steps always has a root, and the first root
\* is positioned at (start_x + node_width, start_y).
C14_RootSelection ==
    (pc = "emit") =>
        LET flow == CurFlow
            roots == RootIndices(flow)
            first == CHOOSE i \in roots : \A j \in roots : i <= j
        IN  /\ roots # {}
            /\ root_idx = Cardinality(roots)
            /\ \A i \in 1..Len(flow.steps) :
                 LET id == flow.steps[i].id
                 IN  /\ i \in roots => id \in DOMAIN placed_via
                     /\ (id \in DOMAIN placed_via /\ placed_via[id][1] = "root") =>
                            /\ i \in roots
                            /\ placed_via[id][2] = RootRank(flow, i)
            /\ placed_via[flow.steps[first].id] = <<"root", 0>>
            /\ positions[flow.steps[first].id] = <<StartX + node_width, StartY>>

\* C14 at work: a flow whose first declared step is no start step and two
\* later start steps, each the seed of its own traversal.
C14_Witness ==
    /\ pc = "emit"
    /\ Len(CurFlow.steps) = 3
    /\ CurFlow.steps[1].step_type # "start"
    /\ DOMAIN placed_via = {CurFlow.steps[2].id, CurFlow.steps[3].id}
    /\ placed_via[CurFlow.steps[2].id] = <<"root", 0>>
    /\ placed_via[CurFlow.steps[3].id] = <<"root", 1>>

(***************************************************************************)
(* Properties of the traversal's steps.                                    *)
(***************************************************************************)
\* C15: during the traversal of a flow a position, once written, is never
\* changed or removed; the only position a step of the traversal writes is
\* that of the dequeued entry, at the entry's coordinates; an entry for a
\* step already positioned is discarded, leaving the positions as they are
\* and appending nothing; and no entry appended names a step that has a
\* position.
C15_FirstVisitWins ==
    [][(pc = "bfs") =>
          /\ \A id \in DOMAIN positions :
                id \in DOMAIN positions' /\ positions'[id] = positions[id]
          /\ (pc' = "bfs" /\ queue = <<>>) => positions' = positions
          /\ (pc' = "bfs" /\ queue # <<>>) =>
                LET e == Head(queue)
                IN  /\ DOMAIN positions' \subseteq DOMAIN positions \cup {e.step_id}
                    /\ e.step_id \in DOMAIN positions' \ DOMAIN positions =>
                          positions'[e.step_id] = <<e.x, e.y>>
                    /\ e.step_id \in DOMAIN positions =>
                          positions' = positions /\ queue' = Tail(queue)
                    /\ Len(queue') >= Len(queue) - 1
                    /\ SubSeq(queue', 1, Len(queue) - 1) = Tail(queue)
                    /\ \A k \in Len(queue)..Len(queue') :
                          queue'[k].step_id \notin DOMAIN positions'
      ]_vars

\* C15 at work: the entry about to be dequeued names a step positioned
\* earlier, at other coordinates than the entry's.
C15_Witness ==
    /\ pc = "bfs"
    /\ queue # <<>>
    /\ Head(queue).step_id \in DOMAIN positions
    /\ positions[Head(queue).step_id] # <<Head(queue).x, Head(queue).y>>

\* C16: an entry queued by a step with n > 2 outgoing connections, for the
\* successor at 0-based declaration index i, is at
\* x + (i - floor(n/2)) * (step width + h_spacing) and
\* y + step height + v_spacing, where (x, y) is the position of the step and
\* its width and height come from the category table, or are the adapter's
\* node_width and node_height for a category the table lacks.
C16_FanOutEntries ==
    (pc = "bfs") =>
        \A k \in 1..Len(queue) :
            LET e == queue[k]
                from == FindStep(CurFlow, e.via[1])
            IN  (e.via[1] # "root" /\ Len(ConnectionsFrom(CurFlow, e.via[1])) > 2) =>
                    LET step == CurFlow.steps[from]
                        n == Len(ConnectionsFrom(CurFlow, step.id))
                        i == e.via[2]
                        w == STEP_BASE_WIDTHS(step.step_type, node_width)
                        h == STEP_MIN_HEIGHTS(step.step_type, node_height)
                    IN  /\ step.id \in DOMAIN positions
                        /\ CurFlow.connections[
                              CHOOSE c \in 1..Len(CurFlow.connections) :
                                 /\ CurFlow.connections[c].from_step = step.id
                                 /\ Cardinality({b \in 1..(c - 1) :
                                      CurFlow.connections[b].from_step = step.id}) = i
                              ].to_step = e.step_id
                        /\ e.x = positions[step.id][1] + (i - (n \div 2)) * (w + h_spacing)
                        /\ e.y = positions[step.id][2] + h + v_spacing

\* C16 at work: a step of a category the table lacks has queued its three
\* successors, the first to its left and the third to its right.
C16_Witness ==
    /\ pc = "bfs"
    /\ Len(queue) = 3
    /\ \A k \in 1..3 : queue[k].via = <<"s2", k - 1>>
    /\ CurFlow.steps[FindStep(CurFlow, "s2")].step_type = "custom"
    /\ queue[1].x = positions["s2"][1] - (node_width + h_spacing)
    /\ queue[3].x = positions["s2"][1] + (node_width + h_spacing)
    /\ queue[1].y = positions["s2"][2] + node_height + v_spacing

(***************************************************************************)
(* Properties of the steps the traversal never reaches.                    *)
(***************************************************************************)
\* C17: the steps the traversal never reached share one x, have increasing
\* y in declaration order, and that x is greater than x + width of every
\* step the traversal positioned.
C17_UnreachedColumnRightOfFlow ==
    (pc = "emit") =>
        LET flow == CurFlow
            reached == {i \in 1..Len(flow.steps) : flow.steps[i].id \in DOMAIN placed_via}
            unreached == (1..Len(flow.steps)) \ reached
            at(i) == positions[flow.steps[i].id]
            width(i) == CreateStepNode(flow.steps[i], at(i)[1], at(i)[2]).width
        IN  /\ \A u, v \in unreached :
                 /\ at(u)[1] = at(v)[1]
                 /\ u < v => at(u)[2] < at(v)[2]
            /\ \A u \in unreached, r \in reached : at(u)[1] > at(r)[1] + width(r)

(***************************************************************************)
(* Properties of the edges of a flow, stated where _process_flow has just  *)
(* returned them.                                                          *)
(***************************************************************************)
\* the flow whose nodes and edges were returned last
LastFlow == FlowAt(Len(flow_out) - 1)

FlowJustEmitted ==
    /\ pc \in {"flow", "data"}
    /\ flow_out # <<>>
    /\ LastFlow.steps # <<>>

\* the connections of the flow that got an edge, in declaration order
EmittedConnections ==
    LET known(conn) == /\ conn.from_step \in DOMAIN step_node_ids
                       /\ conn.to_step \in DOMAIN step_node_ids
    IN  SelectSeq(LastFlow.connections, known)

\* the node created last for a step id
NodeOfStep(step_id) ==
    LET hits == {i \in 1..Len(canvas.nodes) : canvas.nodes[i].id = StepNodeId(step_id)}
    IN  canvas.nodes[CHOOSE i \in hits : \A j \in hits : j <= i]

\* the sides the rule gives for a displacement (dx, dy)
SidesFor(dx, dy) ==
    IF Abs(dy) > Abs(dx)
    THEN (IF dy > 0 THEN <<"bottom", "top">> ELSE <<"top", "bottom">>)
    ELSE (IF dx > 0 THEN <<"right", "left">> ELSE <<"left", "right">>)

\* displacement between the origins (x, y) of the two nodes
OriginSides(from, to) == SidesFor(to.x - from.x, to.y - from.y)

\* displacement between the centers of the two nodes, doubled to stay integral
CenterSides(from, to) ==
    SidesFor((2 * to.x + to.width) - (2 * from.x + from.width),
             (2 * to.y + to.height) - (2 * from.y + from.height))

\* C18 as claimed: the sides of every emitted edge follow the rule applied
\* to the displacement between the centers of the source and target nodes.
C18_SidesFromCenters ==
    FlowJustEmitted =>
        LET edges == flow_out[Len(flow_out)].edges
            conns == EmittedConnections
        IN  /\ Len(edges) = Len(conns)
            /\ \A i \in 1..Len(conns) :
                 <<edges[i].from_side, edges[i].to_side>>
                    = CenterSides(NodeOfStep(conns[i].from_step),
                                  NodeOfStep(conns[i].to_step))

\* C18: the sides of every emitted edge follow the rule applied to the
\* displacement between the origins (x, y) of the source and target nodes:
\* bottom->top or top->bottom if |dy| > |dx|, by the sign of dy, otherwise
\* right->left or left->right, by the sign of dx.
C18_SidesFromOrigins ==
    FlowJustEmitted =>
        LET edges == flow_out[Len(flow_out)].edges
            conns == EmittedConnections
        IN  /\ Len(edges) = Len(conns)
            /\ \A i \in 1..Len(conns) :
                 <<edges[i].from_side, edges[i].to_side>>
                    = OriginSides(NodeOfStep(conns[i].from_step),
                                  NodeOfStep(conns[i].to_step))

\* C18 at work: an edge between two nodes of different sizes, for which the
\* centers would give other sides than the origins do.
C18_Witness ==
    /\ FlowJustEmitted
    /\ \E i \in 1..Len(EmittedConnections) :
         LET from == NodeOfStep(EmittedConnections[i].from_step)
             to == NodeOfStep(EmittedConnections[i].to_step)
             edge == flow_out[Len(flow_out)].edges[i]
         IN  /\ OriginSides(from, to) # CenterSides(from, to)
             /\ <<edge.from_side, edge.to_side>> = OriginSides(from, to)

\* C19: the edges a flow emits are those of its connections with both ends
\* known, in declaration order; each carries its connection's label
\* unchanged, has color "1" if and only if the connection is flagged
\* is_error, and has no color otherwise.
C19_EdgeColorLabelOrder ==
    FlowJustEmitted =>
        LET edges == flow_out[Len(flow_out)].edges
            conns == EmittedConnections
        IN  /\ Len(edges) = Len(conns)
            /\ \A i \in 1..Len(conns) :
                 /\ edges[i].from_node = StepNodeId(conns[i].from_step)
                 /\ edges[i].to_node = StepNodeId(conns[i].to_step)
                 /\ edges[i].label = conns[i].label
                 /\ edges[i].color = "1" <=> conns[i].is_error
                 /\ ~conns[i].is_error => edges[i].color = None

\* C19 at work: a flow emitted an edge without color, then an edge flagged
\* as error path with its label, and dropped one of its connections.
C19_Witness ==
    /\ FlowJustEmitted
    /\ Len(LastFlow.connections) > Len(flow_out[Len(flow_out)].edges)
    /\ \E i, j \in 1..Len(flow_out[Len(flow_out)].edges) :
         LET edges == flow_out[Len(flow_out)].edges
         IN  /\ i < j
             /\ edges[i].color = None /\ edges[i].label = "yes"
             /\ edges[j].color = "1" /\ edges[j].label = "no"

(***************************************************************************)
(* Properties of a row's placement.                                        *)
(***************************************************************************)
\* the x a row at start_x hands its child i: start_x plus, for each child
\* before it, that child's width and the spacing
RowChildX(row, start_x, i) ==
    start_x + SeqSum([j \in 1..(i - 1) |->
                         CalculateSize(row.children[j])[1] + row.spacing])

\* the y a row at start_y hands its child i: start_y plus half the slack
\* between the largest child height and the child's own
RowChildYCentred(row, start_y, i) ==
    LET heights == [j \in 1..Len(row.children) |-> CalculateSize(row.children[j])[2]]
    IN  start_y + ((SeqMax(heights) - heights[i]) \div 2)

\* C20: a row positions child i with origin x equal to the row's origin x
\* plus the sum over the preceding children of (child width + spacing), and
\* origin y equal to the row's origin y plus floor((H - h_i) / 2), H the
\* largest child height and h_i the child's own: the returned nodes are the
\* children's nodes, each child laid out from that origin, and a child's own
\* node (a leaf's, a group's frame) stands at that origin.
C20_RowChildOrigins ==
    \A c \in 1..Len(layout_out) :
        LET call == layout_out[c]
            kids == item.children
            laid(i) == CalculatePositions(kids[i],
                                          RowChildX(item, call.origin[1], i),
                                          RowChildYCentred(item, call.origin[2], i),
                                          <<i>>).nodes
        IN  item.layout_type = "row" =>
                /\ call.nodes = Flatten([i \in 1..Len(kids) |-> laid(i)])
                /\ \A k \in 1..Len(call.nodes) :
                     Len(call.nodes[k].id) = 1 =>
                        /\ call.nodes[k].x =
                              RowChildX(item, call.origin[1], call.nodes[k].id[1])
                        /\ call.nodes[k].y =
                              RowChildYCentred(item, call.origin[2], call.nodes[k].id[1])

\* C20 at work: a row away from (0, 0) positioned a group and a leaf of
\* another height.
C20_Witness ==
    /\ layout_out # <<>>
    /\ layout_out[1].origin # <<0, 0>>
    /\ item.layout_type = "row"
    /\ Len(item.children) = 2
    /\ item.children[1].layout_type = "group"
    /\ item.children[2].layout_type = "node"
    /\ CalculateSize(item.children[1])[2] # CalculateSize(item.children[2])[2]
    /\ item.spacing > 0

(***************************************************************************)
(* Properties of a group's placement.                                      *)
(***************************************************************************)
\* the item a path of child indices leads to
RECURSIVE ItemAt(_, _)
ItemAt(it, path) ==
    IF path = <<>> THEN it ELSE ItemAt(it.children[Head(path)], Tail(path))

\* C21: a group positioned at origin (X, Y) emits a frame node of type
\* group at (X, Y) whose width and height are calculate_size of the group,
\* followed by the nodes of its content laid out from origin
\* (X + padding, Y + padding + 30); the same holds for every group inside
\* the tree: its frame has the group's size and the own node of its content
\* stands at the frame's (x + padding, y + padding + 30).
C21_GroupPlacement ==
    \A c \in 1..Len(layout_out) :
        LET call == layout_out[c]
            nodes == call.nodes
        IN  /\ item.layout_type = "group" =>
                 /\ nodes # <<>>
                 /\ nodes[1].type = "group"
                 /\ <<nodes[1].x, nodes[1].y>> = call.origin
                 /\ <<nodes[1].width, nodes[1].height>> = CalculateSize(item)
                 /\ Tail(nodes) =
                       CalculatePositions(item.children[1],
                                          call.origin[1] + item.padding,
                                          call.origin[2] + item.padding + 30,
                                          <<1>>).nodes
            /\ \A i, j \in 1..Len(nodes) :
                 nodes[i].type = "group" =>
                    LET group == ItemAt(item, nodes[i].id)
                    IN  /\ group.layout_type = "group"
                        /\ <<nodes[i].width, nodes[i].height>> = CalculateSize(group)
                        /\ nodes[j].id = Append(nodes[i].id, 1) =>
                              /\ nodes[j].x = nodes[i].x + group.padding
                              /\ nodes[j].y = nodes[i].y + group.padding + 30

\* C21 at work: a group with padding, away from (0, 0), positioned with a
\* group as its content.
C21_Witness ==
    /\ layout_out # <<>>
    /\ layout_out[1].origin # <<0, 0>>
    /\ item.layout_type = "group"
    /\ item.padding > 0
    /\ item.children[1].layout_type = "group"
    /\ Len(layout_out[1].nodes) >= 3

(***************************************************************************)
(* Properties of the sizes the engine emits.                               *)
(***************************************************************************)
\* C22: every node calculate_positions emits has width > 0 and height > 0.
C22_EmittedNodesHaveExtent ==
    \A c \in 1..Len(layout_out) :
        \A k \in 1..Len(layout_out[c].nodes) :
            /\ layout_out[c].nodes[k].width > 0
            /\ layout_out[c].nodes[k].height > 0

(***************************************************************************)
(* Properties of calculate_text_dimensions.                                *)
(***************************************************************************)
\* C23: for every text and bounds with min_width <= max_width the call
\* returns a width within [min_width, max_width] and a height of at least
\* min_height, and for the empty text exactly (min_width, min_height).
C23_TextDimensionsClamped ==
    (pc = "text" /\ text_out # <<>> /\ text_call.min_width <= text_call.max_width) =>
        /\ text_out[1].raised = None
        /\ text_out[1].value[1] >= text_call.min_width
        /\ text_out[1].value[1] <= text_call.max_width
        /\ text_out[1].value[2] >= text_call.min_height
        /\ text_call.text = EmptyText =>
              text_out[1].value = <<text_call.min_width, text_call.min_height>>

\* C24: whenever the widest line exceeds max_width - 2 * 24, the height
\* returned is at least the sum of the line heights plus 2 * 20, floored at
\* min_height.
C24_WrapNeverShortens ==
    (/\ pc = "text"
     /\ text_out # <<>>
     /\ text_call.text # EmptyText
     /\ SeqMax(LineWidths(text_call.text)) > text_call.max_width - 2 * 24) =>
        /\ text_out[1].raised = None
        /\ text_out[1].value[2] >=
              Max(text_call.min_height, SeqSum(LineHeights(text_call.text)) + 2 * 20)

(***************************************************************************)
(* Properties relating the frames and sizes of a whole layout.             *)
(***************************************************************************)
\* the rectangle of node inner lies inside the rectangle of node outer
Inside(inner, outer) ==
    /\ inner.x >= outer.x
    /\ inner.y >= outer.y
    /\ inner.x + inner.width <= outer.x + outer.width
    /\ inner.y + inner.height <= outer.y + outer.height

\* C25: every node emitted for the content of a group, leaf or nested frame
\* at any depth, lies entirely inside the rectangle of that group's frame.
C25_ContentInsideFrame ==
    \A c \in 1..Len(layout_out) :
        LET nodes == layout_out[c].nodes
        IN  \A i, j \in 1..Len(nodes) :
                (nodes[i].type = "group" /\ IsProperPrefix(nodes[i].id, nodes[j].id))
                => Inside(nodes[j], nodes[i])

\* C25 at work: a group without padding, away from (0, 0), positioned
\* around a row of a leaf and a group that holds a leaf of another height.
C25_Witness ==
    /\ layout_out # <<>>
    /\ layout_out[1].origin # <<0, 0>>
    /\ item.layout_type = "group"
    /\ item.padding = 0
    /\ item.children[1].layout_type = "row"
    /\ Len(item.children[1].children) = 2
    /\ item.children[1].children[1].layout_type = "node"
    /\ item.children[1].children[2].layout_type = "group"
    /\ LeafCount(item) = 2
    /\ layout_out[1].nodes[2].height # layout_out[1].nodes[4].height

\* C27: the (width, height) in the result of calculate_positions equals
\* calculate_size of the item, whatever the origin, and so equals what
\* calculate_size returned when it was called.
C27_PhasesAgree ==
    \A c \in 1..Len(layout_out) :
        /\ <<layout_out[c].width, layout_out[c].height>> = CalculateSize(item)
        /\ size_out # <<>> => <<layout_out[c].width, layout_out[c].height>> = size_out

\* C27 at work: calculate_size and, from two origins, calculate_positions
\* were called on a row that holds a column of two children.
C27_Witness ==
    /\ size_out # <<>>
    /\ Len(layout_out) = 2
    /\ layout_out[1].origin # layout_out[2].origin
    /\ item.layout_type = "row"
    /\ Len(item.children) = 2
    /\ item.children[2].layout_type = "column"
    /\ Len(item.children[2].children) = 2

(***************************************************************************)
(* Properties of the positions of a whole flow.                            *)
(***************************************************************************)
\* C28: _calculate_positions never gives two declared steps of a flow the
\* same (x, y).
C28_NoTwoStepsAtOnePosition ==
    (pc = "emit") =>
        \A i, j \in 1..Len(CurFlow.steps) :
            i # j => positions[CurFlow.steps[i].id] # positions[CurFlow.steps[j].id]

\* C29: a root after the first that is not yet positioned is seeded at
\* x = start_x + node_width and at a y strictly greater than the y of every
\* step positioned before it, and keeps that place; every step the
\* traversal never reached is placed at a y strictly greater than the y of
\* every step the traversal positioned and of every unreached step declared
\* before it.
C29_RunningCursorMonotone ==
    /\ (pc = "bfs") =>
          \A k \in 1..Len(queue) :
              (queue[k].via[1] = "root" /\ queue[k].via[2] >= 1) =>
                  /\ queue[k].x = StartX + node_width
                  /\ queue[k].step_id \notin DOMAIN positions
                  /\ \A id \in DOMAIN positions : queue[k].y > positions[id][2]
    /\ (pc \in {"bfs", "emit"}) =>
          \A id \in DOMAIN placed_via :
              (placed_via[id][1] = "root" /\ placed_via[id][2] >= 1) =>
                  /\ positions[id][1] = StartX + node_width
                  /\ \A other \in DOMAIN placed_via :
                        (placed_via[other][1] = "root"
                         /\ placed_via[other][2] < placed_via[id][2])
                        => positions[id][2] > positions[other][2]
    /\ (pc = "emit") =>
          LET flow == CurFlow
              reached == {i \in 1..Len(flow.steps) : flow.steps[i].id \in DOMAIN placed_via}
              unreached == (1..Len(flow.steps)) \ reached
              y(i) == positions[flow.steps[i].id][2]
          IN  \A u \in unreached :
                  /\ \A r \in reached : y(u) > y(r)
                  /\ \A v \in unreached : v < u => y(u) > y(v)

\* C29 at work: a flow positioned with a second root seeded below the first
\* and a step in between that the traversal never reached.
C29_Witness ==
    /\ pc = "emit"
    /\ Len(CurFlow.steps) = 3
    /\ DOMAIN placed_via = {CurFlow.steps[1].id, CurFlow.steps[3].id}
    /\ placed_via[CurFlow.steps[3].id] = <<"root", 1>>
    /\ positions[CurFlow.steps[3].id][2] > positions[CurFlow.steps[1].id][2]
    /\ positions[CurFlow.steps[2].id][2] > positions[CurFlow.steps[3].id][2]

\* C30: a step with a single successor that is positioned from it never
\* overlaps that successor: the successor's y is at least the step's y plus
\* the height of the step's emitted node.
C30_SuccessorBelowEmittedNode ==
    (pc = "emit") =>
        \A i, j \in 1..Len(CurFlow.steps) :
            LET step == CurFlow.steps[i]
                next == CurFlow.steps[j]
                at == positions[step.id]
            IN  (/\ NextSteps(CurFlow, step.id) = <<next.id>>
                 /\ next.id \in DOMAIN placed_via
                 /\ placed_via[next.id] = <<step.id, 0>>)
                => positions[next.id][2] >= at[2] + CreateStepNode(step, at[1], at[2]).height


(***************************************************************************)
(* Properties of the code canvas.                                          *)
(***************************************************************************)
\* the qualified names of an element and of everything under it
RECURSIVE QualifiedNames(_, _)
QualifiedNames(element, ancestors) ==
    <<GetQualifiedName(element, ancestors)>>
    \o Flatten([i \in 1..Len(element.children) |->
                   QualifiedNames(element.children[i], Append(ancestors, element))])

PairwiseDistinct(s) == \A i, j \in 1..Len(s) : i # j => s[i] # s[j]

NodesWithId(nodes, id) == {i \in 1..Len(nodes) : nodes[i].id = id}

\* C26: when the code elements handed to CodeToCanvasAdapter.convert have
\* pairwise-distinct qualified names, the leaf nodes of the canvas it returns
\* have pairwise-distinct ids, and the fromNode and the toNode of every call
\* edge each name exactly one node of the canvas.
C26_LeafIdsUnique ==
    \A k \in 1..Len(code_out) :
        LET out == code_out[k]
            leaves == SelectSeq(out.nodes, LAMBDA n : n.type = "text")
        IN  PairwiseDistinct(QualifiedNames(code_root, <<>>)) =>
                /\ PairwiseDistinct([i \in 1..Len(leaves) |-> leaves[i].id])
                /\ \A e \in 1..Len(out.edges) :
                      /\ Cardinality(NodesWithId(out.nodes, out.edges[e].from_node)) = 1
                      /\ Cardinality(NodesWithId(out.nodes, out.edges[e].to_node)) = 1

=============================================================================
